---- MODULE Spec2Model ----
(***************************************************************************)
(* A model of the AI-to-NFT workshop: the image-generation poller, the      *)
(* intent-decision parser, the wallet address extractor, the mintable      *)
(* predicate, the /mint route with mintNFT, the chat widget, the message   *)
(* cleaning and the request of the LLM handler, concurrent image           *)
(* generations, the token metadata and the /chat route.                    *)
(***************************************************************************)
EXTENDS Integers, Sequences, FiniteSets, TLC

VARIABLES
    pollPc,        \* position of pollForImageResult
    attempt,       \* the loop counter of pollForImageResult
    checks,        \* status GETs issued by checkGenerationStatus
    sleeps,        \* delays awaited by the poll loop
    pendingSeen,   \* non-terminal answers consumed so far
    lastAnswer,    \* what the last status check answered
    pollResult,    \* the value returned or the error thrown by the poller
    llmOutput,     \* response.output.message handed to the decision parser
    parsePc,       \* position of tryParseImageGenerationResponse
    parsedResponse, \* what tryParseImageGenerationResponse settled with
    messages,      \* the conversation handed to filterWalletAddress
    walletPc,      \* position of filterWalletAddress
    walletAddress, \* what filterWalletAddress resolved to
    descriptor,    \* the argument of isMintable
    mintablePc,    \* position of isMintable
    mintableResult, \* what isMintable returned
    env,           \* BLOCKCHAIN_CONFIG: the process environment
    mintBody,      \* req.body of POST /mint
    mintPc,        \* position of the /mint handler and of mintNFT inside it
    mintTrace,     \* what mintNFT has done so far, in order
    mintResponse,  \* the HTTP response of POST /mint
    build,         \* which mintNFT the repository's build holds
    walletAnswer,  \* how loadWalletFromKeystore settled
    balanceAnswer, \* what provider.getBalance answered, once it has
    chatMessages,  \* the messages state of Chatbot: references to message objects
    messageObjects, \* every ChatMessage object created so far, by reference
    inputValue,    \* the inputValue state of Chatbot
    isLoading,     \* the isLoading state of Chatbot
    chatInFlight,  \* POST /chat calls that have not settled
    chatCalls,     \* POST /chat calls issued
    lastSend,      \* how the last call of sendMessage went
    lastChatResponse, \* what the last settled POST /chat answered
    latestWallet,  \* nft.wallet of App, handed to every Message
    components,    \* isMinting and mintStatus of the Message at each index
    mintRequests,  \* POST /mint calls that have not settled
    mintCalls,     \* POST /mint calls issued
    lastMint,      \* the POST /mint that settled last, and how
    cleanInput,    \* the messages handed to cleanMessagesForLLM
    cleanPc,       \* position of cleanMessagesForLLM
    cleanOutput,   \* what cleanMessagesForLLM returned
    genPc,         \* position of each concurrent generateImage call
    genRequestId,  \* the request id each call polls for
    genAttempt,    \* the loop counter of each call's pollForImageResult
    llmBuild,      \* which makeLLMRequest the repository's build holds
    llmPc,         \* position of makeLLMRequest
    llmRequests,   \* HTTP requests makeLLMRequest has made
    llmFetched,    \* what fetch settled with
    llmResult,     \* what makeLLMRequest settled with
    metaBuild,     \* which generateMetadata the repository's build holds
    metaNFT,       \* the descriptor handed to generateMetadata
    metaPc,        \* position of generateMetadata
    tokenURI,      \* what generateMetadata returned
    routeBody,     \* req.body of POST /chat
    imageToken,    \* IMAGE_CONFIG.API_TOKEN is set
    routePc,       \* position of the /chat handler
    routeTrace,    \* the calls the /chat handler has made, in order
    decision,      \* parsedResponse of handleGernarateImageCheck
    imageCheck,    \* what handleGernarateImageCheck settled with
    routeResponse  \* the HTTP response of POST /chat

pollVars == <<pollPc, attempt, checks, sleeps, pendingSeen, lastAnswer, pollResult>>

parseVars == <<llmOutput, parsePc, parsedResponse>>

walletVars == <<messages, walletPc, walletAddress>>

mintableVars == <<descriptor, mintablePc, mintableResult>>

mintVars == <<env, mintBody, mintPc, mintTrace, mintResponse, build, walletAnswer, balanceAnswer>>

chatVars ==
    <<chatMessages, messageObjects, inputValue, isLoading, chatInFlight, chatCalls,
      lastSend, lastChatResponse, latestWallet, components, mintRequests, mintCalls,
      lastMint>>

cleanVars == <<cleanInput, cleanPc, cleanOutput>>

genVars == <<genPc, genRequestId, genAttempt>>

llmVars == <<llmBuild, llmPc, llmRequests, llmFetched, llmResult>>

metaVars == <<metaBuild, metaNFT, metaPc, tokenURI>>

routeVars ==
    <<routeBody, imageToken, routePc, routeTrace, decision, imageCheck, routeResponse>>

vars ==
    <<pollVars, parseVars, walletVars, mintableVars, mintVars, chatVars, cleanVars, genVars,
      llmVars,
      metaVars,
      routeVars>>

\* JavaScript's undefined, for an absent field.
Undefined == "undefined"

\* JavaScript truthiness of an optional string field.
Truthy(v) == v # Undefined /\ v # ""

(***************************************************************************)
(* The image-generation poller                                             *)
(***************************************************************************)

\* IMAGE_CONFIG.MAX_ATTEMPTS: parseInt(process.env.IMAGE_MAX_ATTEMPTS || '30')
MAX_ATTEMPTS == 30

\* The infer-request records a status endpoint can answer with.
StatusRecords ==
    [ state : {"success", "failed", "pending", Undefined},
      image_url : {Undefined, "", "https://img/1.png"},
      error_message : {Undefined, "", "out of memory"} ]

\* A status check that throws: the transport fails, the HTTP status is not
\* ok, or the answer holds no infer request.
StatusThrows ==
    { [ thrown |-> "fetch failed" ],
      [ thrown |-> "Status check failed: 503" ],
      [ thrown |-> "No infer request found in status response" ] }

StatusAnswers == StatusRecords \cup StatusThrows

NoAnswer == [ none |-> TRUE ]

IsThrow(answer) == "thrown" \in DOMAIN answer

\* The loop test of pollForImageResult under a mutation: one attempt too many.
LoopContinuesOffByOne(a) == a <= MAX_ATTEMPTS

\* for (let attempt = 0; attempt < IMAGE_CONFIG.MAX_ATTEMPTS; attempt++)
LoopContinues(a) == a < MAX_ATTEMPTS

\* The poller's branch on a status record, with success taken as transient.
StatusOutcomeSuccessIgnored(status) ==
    IF status.state = "failed"
      THEN [ kind |-> "throw",
             value |-> <<"Image generation failed: ",
                         IF Truthy(status.error_message)
                           THEN status.error_message ELSE "Unknown error">> ]
      ELSE [ kind |-> "continue", value |-> <<>> ]

\* The poller's branch on a status record, with failed taken as transient.
StatusOutcomeFailedIgnored(status) ==
    IF status.state = "success"
      THEN IF ~Truthy(status.image_url)
             THEN [ kind |-> "throw",
                    value |-> <<"Image generation completed but no image URL found">> ]
             ELSE [ kind |-> "return", value |-> <<status.image_url>> ]
      ELSE [ kind |-> "continue", value |-> <<>> ]

\* The poller's branch on a status record, with a success that carries no
\* URL taken as transient.
StatusOutcomeRetryNoUrl(status) ==
    IF status.state = "success" /\ Truthy(status.image_url)
      THEN [ kind |-> "return", value |-> <<status.image_url>> ]
      ELSE IF status.state = "failed"
        THEN [ kind |-> "throw",
               value |-> <<"Image generation failed: ",
                           IF Truthy(status.error_message)
                             THEN status.error_message ELSE "Unknown error">> ]
        ELSE [ kind |-> "continue", value |-> <<>> ]

\* The body of the poll loop after the status check has answered.
StatusOutcome(status) ==
    IF status.state = "success"
      THEN IF ~Truthy(status.image_url)
             THEN [ kind |-> "throw",
                    value |-> <<"Image generation completed but no image URL found">> ]
             ELSE [ kind |-> "return", value |-> <<status.image_url>> ]
      ELSE IF status.state = "failed"
        THEN [ kind |-> "throw",
               value |-> <<"Image generation failed: ",
                           IF Truthy(status.error_message)
                             THEN status.error_message ELSE "Unknown error">> ]
        ELSE [ kind |-> "continue", value |-> <<>> ]

\* What an async function has settled with: nothing yet, a returned value or
\* a thrown Error with its message.
NoResult == [ kind |-> "none", value |-> <<>> ]

Returned(v) == [ kind |-> "return", value |-> v ]

Thrown(message) == [ kind |-> "throw", value |-> message ]

\* throw new Error('Image generation timed out')
TimeoutError == Thrown(<<"Image generation timed out">>)

PollInit ==
    /\ pollPc = "start"
    /\ attempt = 0
    /\ checks = 0
    /\ sleeps = 0
    /\ pendingSeen = 0
    /\ lastAnswer = NoAnswer
    /\ pollResult = NoResult

\* Entering the loop, or coming back to its test after attempt++: either the
\* next delay starts or the attempts are exhausted.
LoopTest(a) ==
    IF LoopContinues(a)
      THEN /\ pollPc' = "sleep"
           /\ pollResult' = pollResult
      ELSE /\ pollPc' = "thrown"
           /\ pollResult' = TimeoutError

\* pollForImageResult(requestId) is called.
PollStart ==
    /\ pollPc = "start"
    /\ LoopTest(attempt)
    /\ UNCHANGED <<attempt, checks, sleeps, pendingSeen, lastAnswer>>

\* await sleep(POLL_INTERVAL) resolves and the status GET is issued.
PollSleepDone ==
    /\ pollPc = "sleep"
    /\ sleeps' = sleeps + 1
    /\ checks' = checks + 1
    /\ pollPc' = "awaitStatus"
    /\ UNCHANGED <<attempt, pendingSeen, lastAnswer, pollResult>>

\* await checkGenerationStatus(requestId) settles with `answer`.
PollStatus(answer) ==
    /\ pollPc = "awaitStatus"
    /\ lastAnswer' = answer
    /\ IF IsThrow(answer)
         THEN /\ pollPc' = "thrown"
              /\ pollResult' = Thrown(<<answer.thrown>>)
              /\ UNCHANGED <<attempt, pendingSeen>>
         ELSE LET o == StatusOutcome(answer) IN
              CASE o.kind = "return" ->
                     /\ pollPc' = "returned"
                     /\ pollResult' = o
                     /\ UNCHANGED <<attempt, pendingSeen>>
                [] o.kind = "throw" ->
                     /\ pollPc' = "thrown"
                     /\ pollResult' = o
                     /\ UNCHANGED <<attempt, pendingSeen>>
                [] OTHER ->
                     /\ attempt' = attempt + 1
                     /\ pendingSeen' = pendingSeen + 1
                     /\ LoopTest(attempt + 1)
    /\ UNCHANGED <<checks, sleeps>>

PollNext ==
    \/ PollStart
    \/ PollSleepDone
    \/ \E answer \in StatusAnswers : PollStatus(answer)

PollDone == pollPc \in {"returned", "thrown"}

\* The last status check has answered with an infer-request record.
Answered == lastAnswer # NoAnswer /\ ~IsThrow(lastAnswer)

\* C1: N pending answers (0 <= N < MAX_ATTEMPTS) followed by a success that
\* carries a non-empty image URL make the poller return that URL after
\* exactly N+1 status checks, and no status check is issued after the return.
C1_SuccessAfterPending ==
    /\ [](Answered /\ lastAnswer.state = "success" /\ Truthy(lastAnswer.image_url)
            => /\ pollPc = "returned"
               /\ pollResult = Returned(<<lastAnswer.image_url>>)
               /\ pendingSeen < MAX_ATTEMPTS
               /\ checks = pendingSeen + 1)
    /\ [][pollPc = "returned"
            => checks' = checks /\ pollPc' = "returned" /\ pollResult' = pollResult]_vars

\* C1 witness: the success arrives on the last attempt of the budget.
C1_Witness ==
    /\ pollPc = "returned"
    /\ pendingSeen = MAX_ATTEMPTS - 1
    /\ checks = MAX_ATTEMPTS
    /\ pollResult = Returned(<<"https://img/1.png">>)

\* C2: with only non-terminal answers the poller fails with the timeout error
\* after exactly MAX_ATTEMPTS status checks; it never issues more than
\* MAX_ATTEMPTS checks, and it terminates when every check settles.
C2_TimeoutAfterMaxAttempts ==
    /\ [](checks <= MAX_ATTEMPTS)
    /\ [](pendingSeen >= MAX_ATTEMPTS
            => pollPc = "thrown" /\ pollResult = TimeoutError /\ checks = MAX_ATTEMPTS)
    /\ [](pollResult = TimeoutError
            => checks = MAX_ATTEMPTS /\ pendingSeen = MAX_ATTEMPTS)
    /\ <>PollDone

\* C2 witness: the attempts are exhausted by pending answers.
C2_Witness ==
    /\ pollPc = "thrown"
    /\ pollResult = TimeoutError
    /\ pendingSeen = MAX_ATTEMPTS
    /\ checks = MAX_ATTEMPTS

\* C3: the first answer with state 'failed' makes the poller throw the
\* generation-failed error with the upstream message, or 'Unknown error' when
\* none is given, and no status check follows it.
C3_FailedIsTerminal ==
    /\ [](Answered /\ lastAnswer.state = "failed"
            => /\ pollPc = "thrown"
               /\ checks = pendingSeen + 1
               /\ lastAnswer.error_message = "out of memory"
                    => pollResult = Thrown(<<"Image generation failed: ", "out of memory">>)
               /\ lastAnswer.error_message \in {Undefined, ""}
                    => pollResult = Thrown(<<"Image generation failed: ", "Unknown error">>))
    /\ [][pollPc = "thrown"
            => checks' = checks /\ pollPc' = "thrown" /\ pollResult' = pollResult]_vars

\* C3 witness: a failed answer with a message, with attempts left.
C3_Witness ==
    /\ pollPc = "thrown"
    /\ Answered
    /\ lastAnswer.state = "failed"
    /\ lastAnswer.error_message = "out of memory"
    /\ pendingSeen = 2
    /\ attempt < MAX_ATTEMPTS - 1

\* C4: a success answer without an image URL (absent or empty) makes the
\* poller throw the no-image-URL error at that attempt; it is not retried and
\* the call never returns a URL.
C4_SuccessWithoutUrlThrows ==
    /\ [](Answered /\ lastAnswer.state = "success" /\ ~Truthy(lastAnswer.image_url)
            => /\ pollPc = "thrown"
               /\ checks = pendingSeen + 1
               /\ pollResult =
                    Thrown(<<"Image generation completed but no image URL found">>))
    /\ [][pollPc = "thrown"
            => checks' = checks /\ pollPc' # "returned" /\ pollResult'.kind # "return"]_vars

\* C4 witness: success with an empty URL after one pending answer.
C4_Witness ==
    /\ pollPc = "thrown"
    /\ Answered
    /\ lastAnswer.state = "success"
    /\ lastAnswer.image_url = ""
    /\ pendingSeen = 1
    /\ checks = 2

\* A status answer that is neither success nor failed: a record whose state
\* is something else or missing, or an answer that holds no job record.
TransientAnswer(answer) ==
    \/ answer = [ thrown |-> "No infer request found in status response" ]
    \/ "state" \in DOMAIN answer /\ answer.state \notin {"success", "failed"}

\* C26: every status answer that is neither success nor failed, a missing
\* state and a missing job record included, is followed by another delay and
\* status check while attempts remain; once the poll has ended its outcome
\* never changes.
C26_TransientAnswersContinue ==
    /\ [](TransientAnswer(lastAnswer) /\ attempt < MAX_ATTEMPTS => ~PollDone)
    /\ [][PollDone => pollPc' = pollPc /\ pollResult' = pollResult]_vars

\* A status check that failed in transport or with a non-success HTTP status.
TransportFailure(answer) ==
    answer \in { [ thrown |-> "fetch failed" ], [ thrown |-> "Status check failed: 503" ] }

\* C27: a status check that fails in transport or with a non-success HTTP
\* status does not end the poll while attempts remain: the next attempt
\* follows.
C27_FailedCheckDoesNotAbort ==
    TransportFailure(lastAnswer) /\ attempt < MAX_ATTEMPTS => ~PollDone

(***************************************************************************)
(* The intent-decision parser                                              *)
(***************************************************************************)

\* An LLM output is a sequence of text fragments; its text is their
\* concatenation.  The fragments are chosen so that every branch of the
\* parser is reached by some short output.
LBrace == "{"
RBrace == "}"
GenTrue == "\"generate\":true"
GenFalse == "\"generate\":false"
CommaPrompt == ",\"prompt\":\"cat\""
NullLit == "null"
EscapedNewline == "\\n"
Space == " "
Draw == "draw"
PromptCat == "prompt: cat."
PromptEmpty == "prompt: ."

Fragments ==
    { LBrace, RBrace, GenTrue, GenFalse, CommaPrompt, NullLit, EscapedNewline,
      Space, Draw, PromptCat, PromptEmpty }

\* The longest LLM output, in fragments.
MaxOutputLen == 4

BoundedSeq(S, n) == UNION { [1..k -> S] : k \in 0..n }

LLMOutputs == BoundedSeq(Fragments, MaxOutputLen)

\* The JavaScript values JSON.parse and the parser can produce here: null,
\* or an object with an optional boolean generate and an optional prompt.
JsNull == [ type |-> "null", generate |-> Undefined, prompt |-> Undefined ]

JsObject(g, p) == [ type |-> "object", generate |-> g, prompt |-> p ]

\* .replace(/\s+/g, ' '): a run of whitespace becomes one space.
RECURSIVE CollapseWhitespace(_)
CollapseWhitespace(t) ==
    IF Len(t) <= 1 THEN t
    ELSE IF t[1] = Space /\ t[2] = Space
      THEN CollapseWhitespace(Tail(t))
      ELSE <<t[1]>> \o CollapseWhitespace(Tail(t))

\* .trim()
RECURSIVE Trim(_)
Trim(t) ==
    IF t = <<>> THEN t
    ELSE IF t[1] = Space THEN Trim(Tail(t))
    ELSE IF t[Len(t)] = Space THEN Trim(SubSeq(t, 1, Len(t) - 1))
    ELSE t

\* cleanLLMOutput: drop escaped newlines, collapse whitespace, trim.
cleanLLMOutput(rawOutput) ==
    Trim(CollapseWhitespace(SelectSeq(rawOutput, LAMBDA f : f # EscapedNewline)))

\* JSON.parse on a text of fragments: whitespace between tokens is skipped;
\* the texts that are JSON are null, {} and an object that opens with the
\* generate member followed by any number of prompt members.  Anything else
\* is a SyntaxError (ok = FALSE).
JSONParse(text) ==
    LET u == SelectSeq(text, LAMBDA f : f # Space) IN
    IF u = <<NullLit>>
      THEN [ ok |-> TRUE, value |-> JsNull ]
    ELSE IF u = <<LBrace, RBrace>>
      THEN [ ok |-> TRUE, value |-> JsObject(Undefined, Undefined) ]
    ELSE IF /\ Len(u) >= 3
            /\ u[1] = LBrace
            /\ u[Len(u)] = RBrace
            /\ u[2] \in {GenTrue, GenFalse}
            /\ \A i \in 3..(Len(u) - 1) : u[i] = CommaPrompt
      THEN [ ok |-> TRUE,
             value |-> JsObject(IF u[2] = GenTrue THEN "true" ELSE "false",
                                IF Len(u) > 3 THEN "cat" ELSE Undefined) ]
    ELSE [ ok |-> FALSE, value |-> JsNull ]

\* response.match(/\{[^}]*"generate"[^}]*\}/): the leftmost "{" that reaches
\* its first "}" across a "generate" key; <<>> when there is no match.
GenerateMatch(response) ==
    LET closes(i) == { j \in (i + 1)..Len(response) : response[j] = RBrace }
        first(i) == CHOOSE j \in closes(i) : \A k \in closes(i) : j <= k
        hit(i) == /\ response[i] = LBrace
                  /\ closes(i) # {}
                  /\ \E k \in (i + 1)..(first(i) - 1) : response[k] \in {GenTrue, GenFalse}
        starts == { i \in 1..Len(response) : hit(i) }
    IN  IF starts = {} THEN <<>>
        ELSE LET i == CHOOSE a \in starts : \A b \in starts : a <= b
             IN  SubSeq(response, i, first(i))

\* positiveIndicators.some(indicator => lowerResponse.includes(indicator))
hasPositiveIndicator(response) ==
    \E i \in 1..Len(response) : response[i] \in {GenTrue, GenFalse, Draw}

\* response.match(/prompt[:\s]+["']?([^"'\n.!?]+)["']?/i), group 1 trimmed:
\* the first natural-language prompt fragment decides; "" when none matches.
extractedPrompt(response) ==
    LET at == { i \in 1..Len(response) : response[i] \in {PromptCat, PromptEmpty} } IN
    IF at = {} THEN ""
    ELSE LET i == CHOOSE a \in at : \A b \in at : a <= b
         IN  IF response[i] = PromptCat THEN "cat" ELSE ""

\* Strategy 3 of the parser: keyword indicators and prompt extraction.
Strategy3(response) ==
    IF hasPositiveIndicator(response)
      THEN IF extractedPrompt(response) = ""
             THEN JsObject("false", Undefined)
             ELSE JsObject("true", extractedPrompt(response))
      ELSE JsObject("false", Undefined)

\* tryParseImageGenerationResponse: the three strategies in order.
tryParseImageGenerationResponse(response) ==
    LET s1 == JSONParse(cleanLLMOutput(response))
        m == GenerateMatch(response)
        s2 == JSONParse(m)
    IN  IF s1.ok THEN Returned(s1.value)
        ELSE IF m # <<>> /\ s2.ok THEN Returned(s2.value)
        ELSE Returned(Strategy3(response))

ParseInit ==
    /\ llmOutput \in LLMOutputs
    /\ parsePc = "call"
    /\ parsedResponse = NoResult

\* The parser is idle: no LLM output is under analysis.
ParseIdle ==
    /\ llmOutput = <<>>
    /\ parsePc = "idle"
    /\ parsedResponse = NoResult

\* tryParseImageGenerationResponse(response.output.message) runs.
TryParse ==
    /\ parsePc = "call"
    /\ parsedResponse' = tryParseImageGenerationResponse(llmOutput)
    /\ parsePc' = "done"
    /\ UNCHANGED llmOutput

\* C5: for every LLM output the parser returns, without throwing, a decision
\* object whose generate field is a boolean.
C5_AlwaysDecision ==
    parsePc = "done"
        => /\ parsedResponse.kind = "return"
           /\ parsedResponse.value.type = "object"
           /\ parsedResponse.value.generate \in {"true", "false"}

(***************************************************************************)
(* The wallet address extractor                                            *)
(***************************************************************************)

\* The {40} of VALIDATION_REGEX.ETHEREUM_ADDRESS: /0x[a-fA-F0-9]{40}/g
HEX_LEN == 40

\* The text fragments a message is made of; a message's content is a sequence
\* of fragments separated by single spaces.
AddrLower == "0xaaaaaaaaaaaaaaaaaaaaaaaaaaaaaaaaaaaaaaaa"
AddrLower39 == "0xaaaaaaaaaaaaaaaaaaaaaaaaaaaaaaaaaaaaaaa"
AddrLower41 == "0xaaaaaaaaaaaaaaaaaaaaaaaaaaaaaaaaaaaaaaaaa"
AddrChecksum == "0x742d35Cc6634C0532925a3b844Bc454e4438f44e"
AddrBadChecksum == "0x742d35Cc6aB41d9D942eC07c8805b5eeF87DFb70"
HexNoPrefix == "aaaaaaaaaaaaaaaaaaaaaaaaaaaaaaaaaaaaaaaa"

TextFragments ==
    { AddrLower, AddrLower39, AddrLower41, AddrChecksum, AddrBadChecksum, HexNoPrefix }

\* What each fragment is made of: whether it starts with "0x", the number of
\* hexadecimal characters that follow, and the letter case of its first
\* HEX_LEN of them ("lower", a valid EIP-55 "checksum", or "badcase").
Shape(text) ==
    CASE text = AddrLower -> [ prefix |-> TRUE, hex |-> HEX_LEN, case |-> "lower" ]
      [] text = AddrLower39 -> [ prefix |-> TRUE, hex |-> HEX_LEN - 1, case |-> "lower" ]
      [] text = AddrLower41 -> [ prefix |-> TRUE, hex |-> HEX_LEN + 1, case |-> "lower" ]
      [] text = AddrChecksum -> [ prefix |-> TRUE, hex |-> HEX_LEN, case |-> "checksum" ]
      [] text = AddrBadChecksum -> [ prefix |-> TRUE, hex |-> HEX_LEN, case |-> "badcase" ]
      [] text = HexNoPrefix -> [ prefix |-> FALSE, hex |-> HEX_LEN, case |-> "lower" ]
      [] OTHER -> [ prefix |-> FALSE, hex |-> 0, case |-> "lower" ]

\* The first 2 + HEX_LEN characters of a fragment that starts with "0x" and
\* at least HEX_LEN hexadecimal characters.
Leading42(text) == IF text = AddrLower41 THEN AddrLower ELSE text

\* The most messages in a conversation, and the most fragments in the latest
\* message.
MaxMessages == 2
MaxFragments == 2

\* An earlier message holds at most one fragment.
HistoryContents == { <<>> } \cup { <<f>> : f \in TextFragments }

Contents == BoundedSeq(TextFragments, MaxFragments)

UserMessage(c) == [ role |-> "user", content |-> c ]

Conversations ==
    { <<>> } \cup
    { h \o <<UserMessage(c)>> :
        h \in BoundedSeq({ UserMessage(c) : c \in HistoryContents }, MaxMessages - 1),
        c \in Contents }

\* JavaScript's null.
Null == "null"

\* ethers.isAddress(value): an optional "0x", exactly HEX_LEN hexadecimal
\* characters, and a valid checksum when the letters are of mixed case.
isAddress(value) ==
    /\ Shape(value).hex = HEX_LEN
    /\ Shape(value).case # "badcase"

\* content.match(VALIDATION_REGEX.ETHEREUM_ADDRESS): every non-overlapping
\* occurrence of "0x" and HEX_LEN hexadecimal characters, in text order.  The
\* expression is not anchored: a longer run matches on its leading part.
RegexMatches(content) ==
    LET hit == SelectSeq(content, LAMBDA f : Shape(f).prefix /\ Shape(f).hex >= HEX_LEN)
    IN  [ i \in 1..Len(hit) |-> Leading42(hit[i]) ]

\* The choice among several matches under a mutation: the first one.
PickMatchFirst(matches) == matches[1]

\* const address = matches[matches.length - 1]
PickMatch(matches) == matches[Len(matches)]

\* The message that is scanned under a mutation: the first one.
ScannedMessageFirst(msgs) == msgs[1]

\* const lastMessage = messages[messages.length - 1]
ScannedMessage(msgs) == msgs[Len(msgs)]

\* filterWalletAddress(messages)
filterWalletAddress(msgs) ==
    IF Len(msgs) = 0 THEN Null
    ELSE LET matches == RegexMatches(ScannedMessage(msgs).content) IN
         IF Len(matches) > 0 /\ isAddress(PickMatch(matches))
           THEN PickMatch(matches)
           ELSE Null

WalletInit ==
    /\ messages \in Conversations
    /\ walletPc = "call"
    /\ walletAddress = Null

\* The extractor is idle: no conversation is under analysis.
WalletIdle ==
    /\ messages = <<>>
    /\ walletPc = "idle"
    /\ walletAddress = Null

\* filterWalletAddress(body.messages) runs.
FilterWallet ==
    /\ walletPc = "call"
    /\ walletAddress' = filterWalletAddress(messages)
    /\ walletPc' = "done"
    /\ UNCHANGED messages

\* The fragments of the latest message that are exactly "0x" and HEX_LEN
\* hexadecimal characters.
ExactAddressFragments ==
    IF messages = <<>> THEN {}
    ELSE { f \in { messages[Len(messages)].content[i] :
                     i \in 1..Len(messages[Len(messages)].content) } :
             Shape(f).prefix /\ Shape(f).hex = HEX_LEN }

\* C6: a non-null result is a fragment of the latest message that is exactly
\* "0x" and 40 hexadecimal characters and is a valid address; a message whose
\* only 0x-runs have 39 or 41 hexadecimal characters yields null.
C6_OnlyExactAddresses ==
    walletPc = "done"
        => /\ walletAddress # Null
                => walletAddress \in ExactAddressFragments /\ isAddress(walletAddress)
           /\ ExactAddressFragments = {} => walletAddress = Null

\* The position in the latest message of the last fragment that starts with
\* "0x" and at least HEX_LEN hexadecimal characters; 0 when there is none.
LastMatchIndex ==
    IF messages = <<>> THEN 0
    ELSE LET c == messages[Len(messages)].content
             at == { i \in 1..Len(c) : Shape(c[i]).prefix /\ Shape(c[i]).hex >= HEX_LEN }
         IN  IF at = {} THEN 0 ELSE CHOOSE i \in at : \A j \in at : j <= i

\* C7: with several matches in the latest message the last one in text order
\* decides alone: it is returned when valid, and null is returned when it is
\* invalid, also when an earlier match is valid.
C7_LastMatchDecides ==
    walletPc = "done" /\ LastMatchIndex # 0
        => LET last == Leading42(messages[Len(messages)].content[LastMatchIndex]) IN
           /\ Shape(last).case # "badcase" => walletAddress = last
           /\ Shape(last).case = "badcase" => walletAddress = Null

\* C7 witness: a valid address followed by one with a bad checksum yields null.
C7_Witness ==
    /\ walletPc = "done"
    /\ Len(messages) > 0
    /\ messages[Len(messages)].content = <<AddrLower, AddrBadChecksum>>
    /\ walletAddress = Null

\* C8: the result depends on the latest message only: the same latest message
\* under any other history yields the same result, so an address that occurs
\* only in an earlier message is never returned; no message yields null.
C8_LatestMessageOnly ==
    walletPc = "done"
        => /\ messages = <<>> => walletAddress = Null
           /\ messages # <<>>
                => \A h \in BoundedSeq({ UserMessage(c) : c \in HistoryContents },
                                       MaxMessages - 1) :
                      filterWalletAddress(h \o <<messages[Len(messages)]>>) = walletAddress
           /\ walletAddress # Null
                => \E i \in 1..Len(messages[Len(messages)].content) :
                      Leading42(messages[Len(messages)].content[i]) = walletAddress

\* C8 witness: an address in the earlier message, none in the latest one.
C8_Witness ==
    /\ walletPc = "done"
    /\ Len(messages) = 2
    /\ messages[1].content = <<AddrChecksum>>
    /\ messages[2].content = <<HexNoPrefix>>
    /\ walletAddress = Null

(***************************************************************************)
(* The mintable predicate and POST /mint                                   *)
(***************************************************************************)

\* No descriptor at all: isMintable(undefined).
AbsentNFT == [ absent |-> TRUE ]

\* PartialNFT: every field may be missing or empty.
NFTBodies ==
    { AbsentNFT } \cup
    [ image : {Undefined, "", "https://img/1.png"},
      prompt : {Undefined, "", "red bicycle"},
      wallet : {Undefined, ""} \cup TextFragments ]

\* isMintable under a mutation: the address is not validated.
isMintablePresenceOnly(nft) ==
    IF nft = AbsentNFT THEN FALSE
    ELSE Truthy(nft.image) /\ Truthy(nft.prompt) /\ Truthy(nft.wallet)

\* isMintable(nft)
isMintable(nft) ==
    IF nft = AbsentNFT THEN FALSE
    ELSE IF ~Truthy(nft.image) \/ ~Truthy(nft.prompt) \/ ~Truthy(nft.wallet)
      THEN FALSE
      ELSE isAddress(nft.wallet)

MintableInit ==
    /\ descriptor \in NFTBodies
    /\ mintablePc = "call"
    /\ mintableResult = FALSE

\* No isMintable call is under way.
MintableIdle ==
    /\ descriptor = AbsentNFT
    /\ mintablePc = "idle"
    /\ mintableResult = FALSE

\* isMintable(descriptor) runs.
IsMintableCall ==
    /\ mintablePc = "call"
    /\ mintableResult' = isMintable(descriptor)
    /\ mintablePc' = "done"
    /\ UNCHANGED descriptor

\* BLOCKCHAIN_CONFIG: each setting is present or not; the contract ABI, when
\* present, is JSON or not.
Envs ==
    [ RPC_URL : {Undefined, "https://rpc"},
      NFT_CONTRACT : {Undefined, AddrChecksum},
      CONTRACT_ABI : {Undefined, "[abi]", "not json"},
      WALLET_PATH : {Undefined, "keystore.json"},
      WALLET_PASSWORD : {Undefined, "secret"} ]

FullEnv ==
    [ RPC_URL |-> "https://rpc", NFT_CONTRACT |-> AddrChecksum, CONTRACT_ABI |-> "[abi]",
      WALLET_PATH |-> "keystore.json", WALLET_PASSWORD |-> "secret" ]

\* res.status(400).json({ error: INCOMPLETE_NFT_DATA, details })
Response400 ==
    [ status |-> 400, error |-> "Incomplete NFT data",
      details |-> <<"Missing required fields: image, prompt, or valid wallet address">>,
      txHash |-> Undefined ]

\* res.status(500).json({ error: MINTING_FAILED, details: error.message })
Response500(message) ==
    [ status |-> 500, error |-> "Minting failed", details |-> message, txHash |-> Undefined ]

\* res.json({ success: true, txHash })
Response200(txHash) ==
    [ status |-> 200, error |-> Undefined, details |-> <<>>, txHash |-> txHash ]

NoResponse == [ status |-> 0, error |-> Undefined, details |-> <<>>, txHash |-> Undefined ]

\* validateBlockchainConfig(): the message of the error it throws, or <<>>.
validateBlockchainConfig(e) ==
    IF ~Truthy(e.RPC_URL) THEN <<"RPC_URL environment variable is not set">>
    ELSE IF ~Truthy(e.NFT_CONTRACT) THEN <<"NFT_CONTRACT environment variable is not set">>
    ELSE IF ~Truthy(e.CONTRACT_ABI) THEN <<"CONTRACT_ABI environment variable is not set">>
    ELSE <<>>

\* The /mint guard under a mutation: the negation is lost.
MintRejectsInverted(body) == isMintable(body)

\* if (!isMintable(nftData)) return res.status(400)
MintRejects(body) == ~isMintable(body)

\* The repository holds mintNFT twice: the workshop scaffold, which returns a
\* fixed hash where the transaction steps are left to do, and the complete
\* function.
Builds == {"scaffold", "complete"}

MintInit ==
    /\ env \in Envs
    /\ mintBody \in NFTBodies
    /\ mintPc = "received"
    /\ mintTrace = <<>>
    /\ mintResponse = NoResponse
    /\ build \in Builds
    /\ walletAnswer = "none"
    /\ balanceAnswer = <<>>

\* No mint request is being served.
MintIdle ==
    /\ env = FullEnv
    /\ mintBody = AbsentNFT
    /\ mintPc = "idle"
    /\ mintTrace = <<>>
    /\ mintResponse = NoResponse
    /\ build = "complete"
    /\ walletAnswer = "none"
    /\ balanceAnswer = <<>>

\* The handler fails: the catch block of the route answers 500.
MintFails(message) ==
    /\ mintPc' = "responded"
    /\ mintResponse' = Response500(message)

\* POST /mint arrives: the guard, then mintNFT up to its first await
\* (validateBlockchainConfig, then loadWalletFromKeystore is called).
MintRequest ==
    /\ mintPc = "received"
    /\ IF MintRejects(mintBody)
         THEN /\ mintPc' = "responded"
              /\ mintResponse' = Response400
              /\ UNCHANGED mintTrace
         ELSE IF validateBlockchainConfig(env) # <<>>
           THEN /\ MintFails(validateBlockchainConfig(env))
                /\ mintTrace' = <<"mintNFT", "readConfig">>
           ELSE /\ mintPc' = "awaitWallet"
                /\ mintTrace' = <<"mintNFT", "readConfig", "loadWallet">>
                /\ UNCHANGED mintResponse
    /\ UNCHANGED <<env, mintBody, build, walletAnswer, balanceAnswer>>

\* loadWalletFromKeystore(): how the load went.  Everything but "wallet" is
\* caught inside the function and returned as null.
loadWalletFromKeystore(e, readable, decrypts) ==
    IF ~Truthy(e.WALLET_PATH) \/ ~Truthy(e.WALLET_PASSWORD) THEN "incomplete"
    ELSE IF ~readable THEN "unreadable"
    ELSE IF ~decrypts THEN "undecryptable"
    ELSE "wallet"

\* loadWalletFromKeystore() settles: null when the wallet settings are
\* incomplete, the keystore cannot be read or it cannot be decrypted.  With a
\* wallet, the provider is connected and the balance query is sent.
MintWalletLoaded(readable, decrypts) ==
    /\ mintPc = "awaitWallet"
    /\ walletAnswer' = loadWalletFromKeystore(env, readable, decrypts)
    /\ IF walletAnswer' # "wallet"
         THEN /\ MintFails(<<"Wallet not found">>)
              /\ UNCHANGED mintTrace
         ELSE /\ mintPc' = "awaitBalance"
              /\ mintTrace' = Append(mintTrace, "getBalance")
              /\ UNCHANGED mintResponse
    /\ UNCHANGED <<env, mintBody, build, balanceAnswer>>

\* parseContractABI(): the message of the error it throws, or <<>>.
parseContractABI(e) ==
    IF e.CONTRACT_ABI = "not json" THEN <<"Invalid contract ABI format">> ELSE <<>>

\* The balance test under a mutation: a zero balance passes.
BalanceIsZeroNever(balance) == balance < 0

\* if (balance === 0n)
BalanceIsZero(balance) == balance = 0

\* provider.getBalance settles with a balance, or rejects (balance = -1).
\* With a positive balance the metadata is built, the ABI parsed and the
\* safeMint transaction sent; the
\* scaffold returns its fixed hash there instead.
MintBalance(balance) ==
    /\ mintPc = "awaitBalance"
    /\ balanceAnswer' = <<balance>>
    /\ IF balance < 0
         THEN MintFails(<<"could not detect network">>) /\ UNCHANGED mintTrace
         ELSE IF BalanceIsZero(balance)
           THEN MintFails(<<"Insufficient balance for gas fees">>) /\ UNCHANGED mintTrace
           ELSE IF parseContractABI(env) # <<>>
             THEN MintFails(parseContractABI(env)) /\ UNCHANGED mintTrace
             ELSE IF build = "scaffold"
               THEN /\ mintPc' = "responded"
                    /\ mintResponse' = Response200("0x1234567890")
                    /\ mintTrace' = Append(mintTrace, "return")
               ELSE /\ mintPc' = "awaitSubmit"
                    /\ mintTrace' = Append(mintTrace, "safeMint")
                    /\ UNCHANGED mintResponse
    /\ UNCHANGED <<env, mintBody, build, walletAnswer>>

\* contract.safeMint(nft.wallet, metadata) settles: the transaction was
\* accepted, and tx.wait() starts, or the call was rejected.
MintSubmitted(accepted) ==
    /\ mintPc = "awaitSubmit"
    /\ IF accepted
         THEN /\ mintPc' = "awaitConfirm"
              /\ mintTrace' = Append(mintTrace, "wait")
              /\ UNCHANGED mintResponse
         ELSE MintFails(<<"transaction rejected">>) /\ UNCHANGED mintTrace
    /\ UNCHANGED <<env, mintBody, build, walletAnswer, balanceAnswer>>

\* tx.wait() settles: confirmed, and the hash is returned, or reverted.
MintConfirmed(confirmed) ==
    /\ mintPc = "awaitConfirm"
    /\ IF confirmed
         THEN /\ mintPc' = "responded"
              /\ mintResponse' = Response200("0xtxhash")
              /\ mintTrace' = Append(mintTrace, "return")
         ELSE MintFails(<<"transaction reverted">>) /\ UNCHANGED mintTrace
    /\ UNCHANGED <<env, mintBody, build, walletAnswer, balanceAnswer>>

\* A descriptor with image, prompt and wallet present and a wallet of valid
\* address format.
Mintable(nft) ==
    /\ nft # AbsentNFT
    /\ nft.image \notin {Undefined, ""}
    /\ nft.prompt \notin {Undefined, ""}
    /\ nft.wallet \in {AddrLower, AddrChecksum, HexNoPrefix}

\* C9: isMintable is true exactly when image, prompt and wallet are present
\* and the wallet is a valid address; false for an absent descriptor; and it
\* leaves its argument unchanged.
C9_IsMintableIff ==
    /\ [](mintablePc = "done" => (mintableResult <=> Mintable(descriptor)))
    /\ [][descriptor' = descriptor]_vars

\* C9 witness: all three fields present, the wallet has a bad checksum.
C9_Witness ==
    /\ mintablePc = "done"
    /\ descriptor # AbsentNFT
    /\ descriptor.image = "https://img/1.png"
    /\ descriptor.prompt = "red bicycle"
    /\ descriptor.wallet = AddrBadChecksum
    /\ mintableResult = FALSE

\* C10: a /mint body that is not mintable is answered 400 and mintNFT is
\* never invoked for it (nothing of the mint sequence happens); mintNFT runs
\* only for mintable bodies.
C10_MintGuard ==
    /\ mintPc \notin {"idle", "received"} /\ ~Mintable(mintBody)
         => mintPc = "responded" /\ mintResponse.status = 400 /\ mintTrace = <<>>
    /\ mintTrace # <<>> => Mintable(mintBody)

\* C10 witness: image and prompt present, a 41-character hex run as wallet.
C10_Witness ==
    /\ mintPc = "responded"
    /\ mintBody # AbsentNFT
    /\ mintBody.image = "https://img/1.png"
    /\ mintBody.prompt = "red bicycle"
    /\ mintBody.wallet = AddrLower41
    /\ mintResponse = Response400
    /\ mintTrace = <<>>

\* mintNFT has sent the safeMint transaction.
SafeMintSubmitted == \E i \in 1..Len(mintTrace) : mintTrace[i] = "safeMint"

\* C11: on every execution in which the balance query answered 0, the call
\* fails with the insufficient-balance error and the mint transaction is never
\* submitted.
C11_ZeroBalanceNeverSubmits ==
    balanceAnswer = <<0>> =>
        /\ mintPc = "responded"
        /\ mintResponse = Response500(<<"Insufficient balance for gas fees">>)
        /\ ~SafeMintSubmitted

\* C11 witness: a mintable body, a full configuration, a wallet that loads,
\* and a balance of zero.
C11_Witness ==
    /\ balanceAnswer = <<0>>
    /\ walletAnswer = "wallet"
    /\ Mintable(mintBody)
    /\ mintPc = "responded"
    /\ mintResponse.status = 500

\* The first setting that is missing, in the order RPC endpoint, contract
\* address, contract interface, credential path, credential passphrase.
FirstMissing(e) ==
    IF ~Truthy(e.RPC_URL) THEN "RPC_URL"
    ELSE IF ~Truthy(e.NFT_CONTRACT) THEN "NFT_CONTRACT"
    ELSE IF ~Truthy(e.CONTRACT_ABI) THEN "CONTRACT_ABI"
    ELSE IF ~Truthy(e.WALLET_PATH) THEN "WALLET_PATH"
    ELSE IF ~Truthy(e.WALLET_PASSWORD) THEN "WALLET_PASSWORD"
    ELSE "none"

\* The setting an error message of mintNFT names, if it names one.
NamedField(message) ==
    IF message = <<"RPC_URL environment variable is not set">> THEN "RPC_URL"
    ELSE IF message = <<"NFT_CONTRACT environment variable is not set">> THEN "NFT_CONTRACT"
    ELSE IF message = <<"CONTRACT_ABI environment variable is not set">> THEN "CONTRACT_ABI"
    ELSE "none"

\* C12: mintNFT checks configuration, then the credential, then the balance,
\* and the first failing one decides the error: a missing setting (RPC
\* endpoint, contract address, contract interface, credential path or
\* passphrase) fails with an error naming it, a credential that cannot be
\* decrypted fails with the credential error, a zero balance with the
\* insufficient-balance error.
C12_PreconditionOrder ==
    mintPc = "responded" /\ mintTrace # <<>> =>
        IF FirstMissing(env) # "none"
          THEN /\ mintResponse.status = 500
               /\ NamedField(mintResponse.details) = FirstMissing(env)
          ELSE IF walletAnswer \in {"unreadable", "undecryptable"}
            THEN mintResponse = Response500(<<"Wallet not found">>)
            ELSE balanceAnswer = <<0>> =>
                   mintResponse = Response500(<<"Insufficient balance for gas fees">>)

\* What the provider reports when a call on the network fails.
ProviderMessages ==
    { <<"could not detect network">>, <<"transaction rejected">>, <<"transaction reverted">> }

\* C13: mintNFT returns a transaction identifier only after it submitted the
\* safeMint call and that transaction was confirmed, in the order submit,
\* confirmation, return; when submission or confirmation fails the call fails
\* with the provider's message and returns no identifier.
C13_ReturnAfterConfirmation ==
    /\ mintResponse.status = 200 =>
         mintTrace = <<"mintNFT", "readConfig", "loadWallet", "getBalance",
                       "safeMint", "wait", "return">>
    /\ mintPc = "responded" /\ SafeMintSubmitted /\ mintTrace[Len(mintTrace)] # "return" =>
         /\ mintResponse.status = 500
         /\ mintResponse.details \in ProviderMessages
         /\ mintResponse.txHash = Undefined

(***************************************************************************)
(* The chat widget: the Chatbot component (message list, input, loading    *)
(* flag, one POST /chat per send) and the Message components (one per list *)
(* entry, each with its own minting state and its POST /mint requests).    *)
(* Messages are objects: the list holds references, and a copy of the list *)
(* shares the objects with the original.                                   *)
(***************************************************************************)

\* Network calls (POST /chat and POST /mint together) explored.
MaxRequests == 3

\* Text with an image link in it.
ImageText == "look https://x/a.png"

\* What the user may have typed into the textarea.
InputTexts == {"", "  ", "hello"}

\* String.prototype.trim on the texts above.
TrimInput(text) == IF text = "  " THEN "" ELSE text

\* ChatMessage: role, content and the optional nft (image, prompt, hash?).
UserChatMessage(content) ==
    [ role |-> "user", content |-> content, nft |-> AbsentNFT ]

AssistantChatMessage(content, nft) ==
    [ role |-> "assistant", content |-> content, nft |-> nft ]

\* result.output of a /chat response: nothing, a string, or an object with
\* optional message, content and nft.
ChatOutput(type, text, message, content, nft) ==
    [ type |-> type, text |-> text, message |-> message, content |-> content, nft |-> nft ]

NoOutput == ChatOutput("undefined", Undefined, Undefined, Undefined, AbsentNFT)

ChatOutputs ==
    { NoOutput,
      ChatOutput("string", "", Undefined, Undefined, AbsentNFT),
      ChatOutput("string", "reply", Undefined, Undefined, AbsentNFT),
      ChatOutput("object", Undefined, ImageText, Undefined, AbsentNFT),
      ChatOutput("object", Undefined, "reply", Undefined,
                 [ image |-> "https://img/1.png", prompt |-> "red bicycle" ]),
      ChatOutput("object", Undefined, Undefined, "content", AbsentNFT),
      ChatOutput("object", Undefined, Undefined, Undefined, AbsentNFT) }

\* How a POST /chat settles: the call rejects, the body has no result, or
\* the body has result.output and latestNFT.
ChatResponses ==
    [ kind : {"rejected", "noResult"}, output : {NoOutput}, latestNFT : {AbsentNFT} ]
    \cup [ kind : {"ok"}, output : ChatOutputs,
           latestNFT : {[ wallet |-> "" ], [ wallet |-> AddrLower ]} ]

NoChatResponse == [ kind |-> "none" ]

NoMint == [ call |-> 0 ]

NftJson == "{\"nft\":{\"image\":\"https://img/1.png\",\"prompt\":\"red bicycle\"}}"

\* JSON.stringify of an output object that has neither message nor content.
JSONStringify(output) == IF output.nft = AbsentNFT THEN "{}" ELSE NftJson

\* extractResponseContent(responseOutput)
extractResponseContent(output) ==
    IF output.type = "undefined" \/ (output.type = "string" /\ output.text = "")
      THEN "No response content"
    ELSE IF output.type = "string" THEN output.text
    ELSE IF Truthy(output.message) THEN output.message
    ELSE IF Truthy(output.content) THEN output.content
    ELSE JSONStringify(output)

\* response.data.result.output?.nft || undefined, as the nft of a ChatMessage.
ResponseNFT(output) ==
    IF output.nft = AbsentNFT THEN AbsentNFT
    ELSE [ image |-> output.nft.image, prompt |-> output.nft.prompt, hash |-> Undefined ]

ErrorText == "Sorry, I encountered an error. Please try again."

\* The minting state of a Message component when it mounts.
FreshComponent == [ isMinting |-> FALSE, mintStatus |-> "idle" ]

\* The send guard under a mutation: nothing is rejected.
SendRejectedNever(input, loading) == FALSE

\* if (!inputValue.trim() || isLoading) return;
SendRejected(input, loading) == TrimInput(input) = "" \/ loading

ChatInit ==
    /\ chatMessages = <<>>
    /\ messageObjects = <<>>
    /\ inputValue = ""
    /\ isLoading = FALSE
    /\ chatInFlight = 0
    /\ chatCalls = 0
    /\ lastSend = "none"
    /\ lastChatResponse = NoChatResponse
    /\ latestWallet \in {"", AddrLower}
    /\ components = <<>>
    /\ mintRequests = {}
    /\ mintCalls = 0
    /\ lastMint = NoMint

\* The widget as constructed, with no wallet saved.
ChatIdle == ChatInit /\ latestWallet = ""

\* onChange of the textarea, which is disabled while loading.
TypeInput(text) ==
    /\ ~isLoading
    /\ text # inputValue
    /\ inputValue' = text
    /\ UNCHANGED <<chatMessages, messageObjects, isLoading, chatInFlight, chatCalls,
                   lastSend, lastChatResponse, latestWallet, components,
                   mintRequests, mintCalls, lastMint>>

\* sendMessage() up to its await, called by the Send button or by Enter:
\* the guard, then the user message, the cleared input, the loading flag and
\* the POST /chat.
SendMessage ==
    /\ IF SendRejected(inputValue, isLoading)
         THEN /\ lastSend' = "rejected"
              /\ UNCHANGED <<chatMessages, messageObjects, inputValue, isLoading,
                             chatInFlight, chatCalls, components>>
         ELSE /\ chatCalls + mintCalls < MaxRequests
              /\ lastSend' = "accepted"
              /\ messageObjects' = Append(messageObjects, UserChatMessage(inputValue))
              /\ chatMessages' = Append(chatMessages, Len(messageObjects) + 1)
              /\ components' = Append(components, FreshComponent)
              /\ inputValue' = ""
              /\ isLoading' = TRUE
              /\ chatInFlight' = chatInFlight + 1
              /\ chatCalls' = chatCalls + 1
    /\ UNCHANGED <<lastChatResponse, latestWallet, mintRequests, mintCalls, lastMint>>

\* The reply under a mutation: the error text whatever the response.
AssistantReplyAlwaysError(response) == AssistantChatMessage(ErrorText, AbsentNFT)

\* The assistant message sendMessage appends for a settled POST /chat: the
\* reply, or the fixed error text when the call rejected or reading
\* response.data.result.output threw.
AssistantReply(response) ==
    IF response.kind = "ok"
      THEN AssistantChatMessage(extractResponseContent(response.output),
                                ResponseNFT(response.output))
      ELSE AssistantChatMessage(ErrorText, AbsentNFT)

\* The loading flag under a mutation: only the try block clears it.
LoadingAfterResponseTryOnly(response) == response.kind # "ok"

\* finally { setIsLoading(false) }
LoadingAfterResponse(response) == FALSE

\* sendMessage() after its await: try, catch and finally.
ChatResponse(response) ==
    /\ chatInFlight > 0
    /\ chatInFlight' = chatInFlight - 1
    /\ lastChatResponse' = response
    /\ messageObjects' = Append(messageObjects, AssistantReply(response))
    /\ chatMessages' = Append(chatMessages, Len(messageObjects) + 1)
    /\ components' = Append(components, FreshComponent)
    /\ latestWallet' = IF response.kind = "ok" /\ response.latestNFT # AbsentNFT
                         THEN response.latestNFT.wallet
                         ELSE latestWallet
    /\ isLoading' = LoadingAfterResponse(response)
    /\ UNCHANGED <<inputValue, chatCalls, lastSend, mintRequests, mintCalls, lastMint>>

\* content.match(REGEX.IMAGE_URL) on the texts a message can hold: the first
\* http(s) link ending in an image extension, or null.
extractImageFromContent(content) ==
    IF content = ImageText THEN "https://x/a.png"
    ELSE IF content = NftJson THEN "https://img/1.png"
    ELSE Null

\* const imageUrl = message.nft?.image || extractImageFromContent(message.content)
imageUrl(message) ==
    IF message.nft # AbsentNFT /\ Truthy(message.nft.image)
      THEN message.nft.image
      ELSE extractImageFromContent(message.content)

\* message.nft?.hash is truthy.
HasHash(message) == message.nft # AbsentNFT /\ Truthy(message.nft.hash)

\* The message object shown at index i of the list.
MessageAt(i) == messageObjects[chatMessages[i]]

\* The mint button of the Message at index i is rendered and enabled.
MintButtonEnabled(i) ==
    /\ imageUrl(MessageAt(i)) # Null
    /\ ~HasHash(MessageAt(i))
    /\ ~components[i].isMinting

\* The body of the POST /mint sent for a message.
MintRequestBody(message, wallet) ==
    [ image |-> imageUrl(message),
      prompt |-> IF message.nft # AbsentNFT /\ Truthy(message.nft.prompt)
                   THEN message.nft.prompt ELSE "Generated image",
      wallet |-> TrimInput(wallet) ]

\* What the user may have typed into the wallet input of the mint form.
MintFormTexts == {"", AddrLower, AddrLower39}

\* The mint button is clicked for the message at index i: with a wallet set
\* handleMint runs at once, otherwise the form is shown and handleMint runs
\* when the user submits the address typed into it.  handleMint up to its
\* await: the guard, isMinting, mintStatus and the POST /mint.  The
\* updateNFT it will call is the one of this render: it holds this list.
HandleMint(i, typed) ==
    LET wallet == IF latestWallet # "" THEN latestWallet ELSE typed
    IN  /\ chatCalls + mintCalls < MaxRequests
        /\ i \in 1..Len(chatMessages)
        /\ MintButtonEnabled(i)
        /\ TrimInput(wallet) # ""
        /\ components' = [components EXCEPT ![i] = [isMinting |-> TRUE, mintStatus |-> "idle"]]
        /\ mintCalls' = mintCalls + 1
        /\ mintRequests' = mintRequests \cup
             { [ index |-> i, messages |-> chatMessages, live |-> TRUE,
                 call |-> mintCalls + 1,
                 body |-> MintRequestBody(MessageAt(i), wallet) ] }
        /\ UNCHANGED <<chatMessages, messageObjects, inputValue, isLoading, chatInFlight,
                       chatCalls, lastSend, lastChatResponse, latestWallet, lastMint>>

\* The message a mint request was sent for had a descriptor with a prompt.
SentForPrompt(r) ==
    LET message == messageObjects[r.messages[r.index]]
    IN  message.nft # AbsentNFT /\ Truthy(message.nft.prompt)

\* C25: a POST /mint is sent only for a descriptor that is mintable, with a
\* non-empty image, a non-empty prompt and a wallet of valid format; for a
\* message without a prompt, or with a wallet that is not an address, no
\* request is sent.
C25_MintOnlyWhenMintable ==
    \A r \in mintRequests : isMintable(r.body) /\ SentForPrompt(r)

\* The transaction hash the backend answers for the n-th mint request.
TxHash(n) == "0xh" \o ToString(n)

\* addMintSuccessMessage(hash): the message it appends.
MintSuccessMessage(hash) ==
    AssistantChatMessage("NFT minted into your wallet with hash: " \o hash, AbsentNFT)

\* updateNFT: if (message && message.nft), for message = newMessages[messageIndex]
UpdateApplies(heldMessages, messageIndex) ==
    /\ messageIndex \in 1..Len(heldMessages)
    /\ messageObjects[heldMessages[messageIndex]].nft # AbsentNFT

\* updateNFT(messageIndex, hash) as held by a render whose list was
\* `messages`: the objects after message.nft.hash = hash and after the
\* success message was created.
UpdatedObjects(heldMessages, messageIndex, hash) ==
    Append([messageObjects EXCEPT ![heldMessages[messageIndex]].nft.hash = hash],
           MintSuccessMessage(hash))

\* The list after setMessages(newMessages), newMessages a copy of the list
\* the render held, and after addMintSuccessMessage's append.
UpdatedList(heldMessages) == Append(heldMessages, Len(messageObjects) + 1)

\* Message components are keyed by role and index: the component at index i
\* keeps its state while the list entry at i keeps its role.
SameKey(oldList, newList, objects, i) ==
    /\ i \in 1..Len(oldList)
    /\ i \in 1..Len(newList)
    /\ objects[oldList[i]].role = objects[newList[i]].role

Reconcile(oldList, newList, objects, comps) ==
    [ i \in 1..Len(newList) |->
        IF SameKey(oldList, newList, objects, i) THEN comps[i] ELSE FreshComponent ]

\* A POST /mint settles and handleMint resumes: on a 200, updateNFT and
\* mintStatus 'success'; on a failure mintStatus 'error'; isMinting false in
\* either case.  The setters of a component that was unmounted do nothing.
MintSettled(r, confirmed) ==
    LET hash == TxHash(r.call)
        applies == confirmed /\ UpdateApplies(r.messages, r.index)
        objects == IF applies THEN UpdatedObjects(r.messages, r.index, hash)
                   ELSE messageObjects
        list == IF applies THEN UpdatedList(r.messages) ELSE chatMessages
        kept == Reconcile(chatMessages, list, objects, components)
        alive == r.live /\ SameKey(chatMessages, list, objects, r.index)
    IN  /\ r \in mintRequests
        /\ messageObjects' = objects
        /\ chatMessages' = list
        /\ components' =
             IF alive
               THEN [kept EXCEPT ![r.index] =
                       [ isMinting |-> FALSE,
                         mintStatus |-> IF confirmed THEN "success" ELSE "error" ]]
               ELSE kept
        /\ mintRequests' =
             { [q EXCEPT !.live = q.live /\ SameKey(chatMessages, list, objects, q.index)] :
                 q \in mintRequests \ {r} }
        /\ lastMint' = [ index |-> r.index, call |-> r.call, messages |-> r.messages,
                         confirmed |-> confirmed, hash |-> hash ]
        /\ UNCHANGED <<inputValue, isLoading, chatInFlight, chatCalls, lastSend,
                       lastChatResponse, latestWallet, mintCalls>>

\* C14: at most one POST /chat is in flight at any time, and a send triggered
\* while one is in flight issues no network call and appends no message.
C14_OneChatInFlight ==
    /\ [](chatInFlight <= 1)
    /\ [][chatInFlight > 0 =>
            /\ chatCalls' = chatCalls
            /\ lastSend' # lastSend =>
                 chatMessages' = chatMessages /\ messageObjects' = messageObjects]_vars

\* C14 witness: sendMessage was called while the first call was in flight.
C14_Witness ==
    /\ isLoading
    /\ chatInFlight = 1
    /\ chatCalls = 1
    /\ lastSend = "rejected"
    /\ Len(chatMessages) = 1

\* C15: every send that sets the loading flag eventually clears it, whether
\* the call succeeds, fails or the response handling throws; the flag is
\* never set once the call has settled.
C15_LoadingClears ==
    /\ isLoading ~> ~isLoading
    /\ [](chatInFlight = 0 => ~isLoading)

\* C15 witness: the response handling threw and the flag is clear again.
C15_Witness ==
    /\ chatCalls = 1
    /\ chatInFlight = 0
    /\ lastChatResponse.kind = "noResult"
    /\ ~isLoading

\* The content of the success message of a mint.
IsMintSuccess(content) ==
    \E n \in 1..MaxRequests : content = MintSuccessMessage(TxHash(n)).content

\* C16: an accepted send appends exactly one user message and issues exactly
\* one POST /chat; when the call settles exactly one assistant message is
\* appended, the extracted reply or the fixed error text, and no call is
\* issued again; a send with blank input appends nothing and issues no call.
C16_OneUserOneAssistant ==
    /\ [][chatCalls' # chatCalls =>
            /\ chatCalls' = chatCalls + 1
            /\ chatInFlight' = chatInFlight + 1
            /\ messageObjects' = Append(messageObjects, UserChatMessage(inputValue))
            /\ chatMessages' = Append(chatMessages, Len(messageObjects'))]_vars
    /\ [][chatInFlight' < chatInFlight =>
            /\ chatCalls' = chatCalls
            /\ chatInFlight' = chatInFlight - 1
            /\ Len(messageObjects') = Len(messageObjects) + 1
            /\ chatMessages' = Append(chatMessages, Len(messageObjects'))
            /\ messageObjects'[Len(messageObjects')].role = "assistant"
            /\ messageObjects'[Len(messageObjects')].content =
                 IF lastChatResponse'.kind = "ok"
                   THEN extractResponseContent(lastChatResponse'.output)
                   ELSE ErrorText]_vars
    /\ [][TrimInput(inputValue) = "" /\ lastSend' # lastSend =>
            /\ chatCalls' = chatCalls
            /\ chatMessages' = chatMessages
            /\ messageObjects' = messageObjects]_vars
    /\ [](Cardinality({ id \in DOMAIN messageObjects :
                          messageObjects[id].role = "user" }) = chatCalls)
    /\ [](Cardinality({ id \in DOMAIN messageObjects :
                          /\ messageObjects[id].role = "assistant"
                          /\ ~IsMintSuccess(messageObjects[id].content) })
            = chatCalls - chatInFlight)

\* C16 witness: one send whose call rejected: the user message, then the
\* fixed error text.
C16_Witness ==
    /\ chatCalls = 1
    /\ chatInFlight = 0
    /\ lastChatResponse.kind = "rejected"
    /\ Len(chatMessages) = 2
    /\ MessageAt(1) = UserChatMessage("hello")
    /\ MessageAt(2) = AssistantChatMessage(ErrorText, AbsentNFT)

\* C17: the message list is append-only: it never gets shorter, no entry is
\* removed or reordered, role and content of a message never change, and the
\* only change to an existing message is a hash attached to its descriptor.
C17_AppendOnly ==
    [][/\ Len(chatMessages') >= Len(chatMessages)
       /\ \A i \in 1..Len(chatMessages) : chatMessages'[i] = chatMessages[i]
       /\ \A id \in DOMAIN messageObjects :
            /\ messageObjects'[id].role = messageObjects[id].role
            /\ messageObjects'[id].content = messageObjects[id].content
            /\ (messageObjects[id].nft = AbsentNFT) = (messageObjects'[id].nft = AbsentNFT)
            /\ messageObjects[id].nft # AbsentNFT =>
                 /\ messageObjects'[id].nft.image = messageObjects[id].nft.image
                 /\ messageObjects'[id].nft.prompt = messageObjects[id].nft.prompt]_vars

\* The object of the message a settled mint request was made for.
MintedObject(m) == m.messages[m.index]

\* C18: when the mint request for the message at index i is confirmed with a
\* hash, the descriptor of that message, and of no other, gets the hash, and
\* exactly one success message naming the hash is appended; this for every
\* message that showed a mint button, also one whose image came from its
\* text.
C18_ConfirmedMintAttachesHash ==
    [][lastMint'.call # lastMint.call /\ lastMint'.confirmed =>
         /\ messageObjects'[MintedObject(lastMint')].nft # AbsentNFT
         /\ messageObjects'[MintedObject(lastMint')].nft.hash = lastMint'.hash
         /\ \A id \in DOMAIN messageObjects :
              id # MintedObject(lastMint') => messageObjects'[id] = messageObjects[id]
         /\ Len(messageObjects') = Len(messageObjects) + 1
         /\ messageObjects'[Len(messageObjects')] = MintSuccessMessage(lastMint'.hash)
         /\ chatMessages'[Len(chatMessages')] = Len(messageObjects')]_vars

\* C19: the hash of a message is set at most once, only when a mint for it
\* is confirmed, and never cleared or replaced; no mint request is issued for
\* a message while a mint for it is in progress or after one was confirmed.
C19_HashSetOnce ==
    /\ [][\A id \in DOMAIN messageObjects :
            /\ HasHash(messageObjects[id]) => messageObjects'[id] = messageObjects[id]
            /\ ~HasHash(messageObjects[id]) /\ HasHash(messageObjects'[id]) =>
                 /\ lastMint'.call # lastMint.call
                 /\ lastMint'.confirmed
                 /\ MintedObject(lastMint') = id
                 /\ messageObjects'[id].nft.hash = lastMint'.hash]_vars
    /\ [][\A r \in mintRequests' \ mintRequests :
            /\ \A q \in mintRequests : MintedObject(q) # MintedObject(r)
            /\ ~HasHash(messageObjects[MintedObject(r)])
            /\ ~(/\ lastMint.call # 0
                 /\ lastMint.confirmed
                 /\ MintedObject(lastMint) = MintedObject(r))]_vars

(***************************************************************************)
(* cleanMessagesForLLM: the conversation without its NFT data.  A message  *)
(* is an object: a function from the names of the fields it has.           *)
(***************************************************************************)

\* Messages without an nft field.
PlainMessages == [ role : {"user", "assistant"}, content : {"hello", ImageText} ]

\* The nft a message may carry: image and prompt, and a hash once minted.
MessageNFTs ==
    { [ image |-> "https://img/1.png", prompt |-> "red bicycle" ],
      [ image |-> "https://img/1.png", prompt |-> "red bicycle", hash |-> "0xh1" ] }

\* The object m with an nft field added.
WithNFT(m, nft) ==
    [ f \in DOMAIN m \cup {"nft"} |-> IF f = "nft" THEN nft ELSE m[f] ]

\* Message: role, content and the optional nft.
LLMMessages == PlainMessages \cup { WithNFT(m, nft) : m \in PlainMessages, nft \in MessageNFTs }

\* The cleaning under a mutation: the messages are passed on as they are.
cleanMessagesKept(msgs) == msgs

\* messages.map(message => { const { nft, ...cleanMessage } = message;
\* return cleanMessage; }): a new list of new objects, each with every field
\* of its message but nft.
cleanMessagesForLLM(msgs) ==
    [ i \in DOMAIN msgs |-> [ f \in DOMAIN msgs[i] \ {"nft"} |-> msgs[i][f] ] ]

CleanInit ==
    /\ cleanInput \in BoundedSeq(LLMMessages, MaxMessages)
    /\ cleanPc = "called"
    /\ cleanOutput = <<>>

\* cleanMessagesForLLM is not running.
CleanIdle ==
    /\ cleanInput = <<>>
    /\ cleanPc = "idle"
    /\ cleanOutput = <<>>

\* const cleanMessages = cleanMessagesForLLM(messages)
CleanMessages ==
    /\ cleanPc = "called"
    /\ cleanOutput' = cleanMessagesForLLM(cleanInput)
    /\ cleanPc' = "done"
    /\ UNCHANGED cleanInput

\* C20: the list cleanMessagesForLLM returns has the length and order of its
\* input, each element has the role and content of the message at its place,
\* no element has an nft, and the input messages are not modified.
C20_CleanKeepsRoleAndContent ==
    /\ [](cleanPc = "done" =>
            /\ Len(cleanOutput) = Len(cleanInput)
            /\ \A i \in 1..Len(cleanInput) :
                 /\ cleanOutput[i].role = cleanInput[i].role
                 /\ cleanOutput[i].content = cleanInput[i].content
                 /\ "nft" \notin DOMAIN cleanOutput[i])
    /\ [][cleanInput' = cleanInput]_vars

\* C20 witness: two messages, the second with a minted nft.
C20_Witness ==
    /\ cleanPc = "done"
    /\ Len(cleanInput) = 2
    /\ cleanInput[1] = [ role |-> "user", content |-> "hello" ]
    /\ "nft" \in DOMAIN cleanInput[2]
    /\ "hash" \in DOMAIN cleanInput[2].nft
    /\ cleanOutput[2] = [ role |-> "assistant", content |-> ImageText ]

(***************************************************************************)
(* Concurrent image generations: every /chat request that asks for an      *)
(* image runs its own generateImage call, and the calls interleave at      *)
(* their awaits.                                                           *)
(***************************************************************************)

\* generateImage calls running side by side.
MaxCalls == 2

Calls == 1..MaxCalls

\* submitImageGenerationRequest: return '1234567890'
SubmittedRequestId == "1234567890"

GenInit ==
    /\ genPc = [ c \in Calls |-> "called" ]
    /\ genRequestId = [ c \in Calls |-> Undefined ]
    /\ genAttempt = [ c \in Calls |-> 0 ]

\* No generateImage call is running.
GenIdle ==
    /\ genPc = [ c \in Calls |-> "idle" ]
    /\ genRequestId = [ c \in Calls |-> Undefined ]
    /\ genAttempt = [ c \in Calls |-> 0 ]

\* The loop test of call c with a as its counter: the next delay starts, or
\* the timeout error is thrown and the counter is gone.
GenLoopTest(c, a) ==
    IF LoopContinues(a)
      THEN /\ genPc' = [genPc EXCEPT ![c] = "sleep"]
           /\ genAttempt' = [genAttempt EXCEPT ![c] = a]
      ELSE /\ genPc' = [genPc EXCEPT ![c] = "thrown"]
           /\ genAttempt' = [genAttempt EXCEPT ![c] = 0]

\* generateImage(prompt) of call c: validateImageConfig, then the await of
\* submitImageGenerationRequest.
GenStart(c) ==
    /\ genPc[c] = "called"
    /\ genPc' = [genPc EXCEPT ![c] = "awaitSubmit"]
    /\ UNCHANGED <<genRequestId, genAttempt>>

\* The submission resolves with the request id and pollForImageResult starts.
GenSubmitted(c) ==
    /\ genPc[c] = "awaitSubmit"
    /\ genRequestId' = [genRequestId EXCEPT ![c] = SubmittedRequestId]
    /\ GenLoopTest(c, 0)

\* await sleep(POLL_INTERVAL) of call c resolves and its status GET is issued.
GenSleepDone(c) ==
    /\ genPc[c] = "sleep"
    /\ genPc' = [genPc EXCEPT ![c] = "awaitStatus"]
    /\ UNCHANGED <<genRequestId, genAttempt>>

\* The status GET of call c settles with `answer`.
GenStatus(c, answer) ==
    /\ genPc[c] = "awaitStatus"
    /\ IF IsThrow(answer) \/ StatusOutcome(answer).kind = "throw"
         THEN /\ genPc' = [genPc EXCEPT ![c] = "thrown"]
              /\ genAttempt' = [genAttempt EXCEPT ![c] = 0]
         ELSE IF StatusOutcome(answer).kind = "return"
           THEN /\ genPc' = [genPc EXCEPT ![c] = "returned"]
                /\ genAttempt' = [genAttempt EXCEPT ![c] = 0]
           ELSE GenLoopTest(c, genAttempt[c] + 1)
    /\ UNCHANGED genRequestId

\* The status GET of call c is in flight.
CheckInFlight(c) == genPc[c] = "awaitStatus"

\* C28: no two status checks for the same request id are in flight at the
\* same time, also with several generations running side by side; within one
\* call a status check starts only when a delay has just elapsed, and a delay
\* starts only after the submission or after the previous check answered.
C28_NoConcurrentChecks ==
    /\ [](\A c, d \in Calls :
            c # d /\ CheckInFlight(c) /\ CheckInFlight(d)
              => genRequestId[c] # genRequestId[d])
    /\ [][\A c \in Calls :
            /\ CheckInFlight(c)' /\ ~CheckInFlight(c) => genPc[c] = "sleep"
            /\ genPc'[c] = "sleep" /\ genPc[c] # "sleep"
                 => genPc[c] \in {"awaitSubmit", "awaitStatus"}]_vars

(***************************************************************************)
(* makeLLMRequest: one POST to the LLM endpoint.  The repository holds the *)
(* function twice: one reads the body as JSON before it tests response.ok, *)
(* the other tests response.ok first.                                      *)
(***************************************************************************)

LLMBuilds == {"jsonFirst", "okFirst"}

\* The statusText of an HTTP status.
StatusText(status) ==
    CASE status = 200 -> "OK"
      [] status = 201 -> "Created"
      [] status = 400 -> "Bad Request"
      [] status = 401 -> "Unauthorized"
      [] status = 429 -> "Too Many Requests"
      [] status = 500 -> "Internal Server Error"
      [] status = 502 -> "Bad Gateway"
      [] OTHER -> "Service Unavailable"

\* What the endpoint may answer: a status, and a body that is the expected
\* JSON, JSON without body.infer_requests, or no JSON at all.
UpstreamResponses ==
    [ status : {200, 201, 400, 401, 429, 500, 502, 503},
      body : {"inferRequests", "emptyObject", "errorObject", "html"} ]

\* fetch rejects: no response at all.
FetchRejected == [ rejected |-> TRUE ]

NoFetch == [ none |-> TRUE ]

\* response.ok
ResponseOk(response) == response.status \in 200..299

\* throw new Error(`API request failed with status ${status}: ${statusText}`)
StatusError(response) ==
    Thrown(<<"API request failed with status ", ToString(response.status), ": ",
             StatusText(response.status)>>)

\* await response.json(), then json.body.infer_requests[0]: the value
\* returned or the error thrown.
ReadInferRequest(response) ==
    IF response.body = "html"
      THEN Thrown(<<"Unexpected token < in JSON at position 0">>)
    ELSE IF response.body = "inferRequests"
      THEN Returned(<<"output", "input">>)
      ELSE Thrown(<<"Cannot read properties of undefined">>)

LLMInit ==
    /\ llmBuild \in LLMBuilds
    /\ llmPc = "called"
    /\ llmRequests = 0
    /\ llmFetched = NoFetch
    /\ llmResult = NoResult

\* makeLLMRequest is not running.
LLMIdle ==
    /\ llmBuild = "okFirst"
    /\ llmPc = "idle"
    /\ llmRequests = 0
    /\ llmFetched = NoFetch
    /\ llmResult = NoResult

\* makeLLMRequest(messages) up to await fetch(...).
LLMCall ==
    /\ llmPc = "called"
    /\ llmPc' = "awaitFetch"
    /\ llmRequests' = llmRequests + 1
    /\ UNCHANGED <<llmBuild, llmFetched, llmResult>>

\* fetch settles.  A rejection is rethrown by the catch block.  With a
\* response, one version tests response.ok here and throws, the other goes
\* straight to await response.json().
LLMFetched(response) ==
    /\ llmPc = "awaitFetch"
    /\ llmFetched' = response
    /\ IF response = FetchRejected
         THEN llmPc' = "done" /\ llmResult' = Thrown(<<"fetch failed">>)
         ELSE IF llmBuild = "okFirst" /\ ~ResponseOk(response)
           THEN llmPc' = "done" /\ llmResult' = StatusError(response)
           ELSE llmPc' = "awaitJson" /\ UNCHANGED llmResult
    /\ UNCHANGED <<llmBuild, llmRequests>>

\* response.json() settles: a body that is no JSON rejects; otherwise the
\* version that has not tested response.ok yet tests it now, and the result
\* is read from json.body.infer_requests[0].
LLMJson ==
    /\ llmPc = "awaitJson"
    /\ llmPc' = "done"
    /\ llmResult' =
         IF llmFetched.body = "html" THEN ReadInferRequest(llmFetched)
         ELSE IF llmBuild = "jsonFirst" /\ ~ResponseOk(llmFetched)
           THEN StatusError(llmFetched)
           ELSE ReadInferRequest(llmFetched)
    /\ UNCHANGED <<llmBuild, llmRequests, llmFetched>>

\* C23: whenever the upstream status is not a success status the call fails
\* with the error that carries the status code and status text, whether or
\* not the body is JSON, and each call makes exactly one HTTP request.
C23_StatusErrorOnFailure ==
    /\ llmPc = "done" /\ "status" \in DOMAIN llmFetched /\ llmFetched.status \notin 200..299
         => llmResult = Thrown(<<"API request failed with status ",
                                 ToString(llmFetched.status), ": ",
                                 StatusText(llmFetched.status)>>)
    /\ llmRequests <= 1
    /\ llmPc = "done" => llmRequests = 1

(***************************************************************************)
(* The token metadata: generateMetadata builds the metadata object of a    *)
(* descriptor, serialises it with JSON.stringify, encodes the text in      *)
(* base64 and returns it as a data URI.  Texts are strings of printable    *)
(* ASCII; Buffer.from turns them into their bytes.                         *)
(***************************************************************************)

CharAt(s, i) == SubSeq(s, i, i)

\* The printable ASCII characters of the texts: those of codes 32 to 95 and
\* those of codes 97 to 126.
PrintableLow ==
    " !\"#$%&'()*+,-./0123456789:;<=>?@ABCDEFGHIJKLMNOPQRSTUVWXYZ[\\]^_"

PrintableHigh == "abcdefghijklmnopqrstuvwxyz{|}~"

\* The base64 alphabet of Buffer's toString("base64").
Base64Alphabet == "ABCDEFGHIJKLMNOPQRSTUVWXYZabcdefghijklmnopqrstuvwxyz0123456789+/"

UpperCase == "ABCDEFGHIJKLMNOPQRSTUVWXYZ"
LowerCase == "abcdefghijklmnopqrstuvwxyz"
Digits == "0123456789"

\* The place of a character in a text, 0 when it is not there.
IndexOf(s, c) ==
    IF \E i \in 1..Len(s) : CharAt(s, i) = c
      THEN CHOOSE i \in 1..Len(s) : CharAt(s, i) = c
      ELSE 0

\* charCodeAt
CharCode(c) ==
    IF IndexOf(PrintableLow, c) > 0 THEN 31 + IndexOf(PrintableLow, c)
    ELSE 96 + IndexOf(PrintableHigh, c)

\* String.fromCharCode
FromCharCode(n) ==
    IF n < 96 THEN CharAt(PrintableLow, n - 31) ELSE CharAt(PrintableHigh, n - 96)

\* Buffer.from(text): the bytes of the text.
BufferFrom(text) == [ i \in 1..Len(text) |-> CharCode(CharAt(text, i)) ]

\* The texts of a list, one after the other.
RECURSIVE ConcatText(_)
ConcatText(parts) ==
    IF parts = <<>> THEN ""
    ELSE IF Len(parts) = 1 THEN parts[1]
    ELSE ConcatText(SubSeq(parts, 1, Len(parts) \div 2))
           \o ConcatText(SubSeq(parts, Len(parts) \div 2 + 1, Len(parts)))

\* The byte lists of a list, one after the other.
RECURSIVE ConcatBytes(_)
ConcatBytes(parts) ==
    IF parts = <<>> THEN <<>>
    ELSE IF Len(parts) = 1 THEN parts[1]
    ELSE ConcatBytes(SubSeq(parts, 1, Len(parts) \div 2))
           \o ConcatBytes(SubSeq(parts, Len(parts) \div 2 + 1, Len(parts)))

\* buffer.toString(): the text of the bytes.
BufferToString(bytes) == ConcatText([ i \in 1..Len(bytes) |-> FromCharCode(bytes[i]) ])

Sextet(n) == CharAt(Base64Alphabet, n + 1)

\* One group of base64: three bytes make four characters, and a group of
\* one or two bytes is padded with "=".
EncodeGroup(bytes) ==
    IF Len(bytes) = 1
      THEN Sextet(bytes[1] \div 4) \o Sextet((bytes[1] % 4) * 16) \o "=="
    ELSE IF Len(bytes) = 2
      THEN Sextet(bytes[1] \div 4)
             \o Sextet((bytes[1] % 4) * 16 + bytes[2] \div 16)
             \o Sextet((bytes[2] % 16) * 4) \o "="
    ELSE Sextet(bytes[1] \div 4)
           \o Sextet((bytes[1] % 4) * 16 + bytes[2] \div 16)
           \o Sextet((bytes[2] % 16) * 4 + bytes[3] \div 64)
           \o Sextet(bytes[3] % 64)

\* buffer.toString("base64")
ToBase64(bytes) ==
    ConcatText([ g \in 1..((Len(bytes) + 2) \div 3) |->
                   EncodeGroup(SubSeq(bytes, 3 * g - 2,
                                      IF 3 * g < Len(bytes) THEN 3 * g ELSE Len(bytes))) ])

\* One group of base64 decoded: four characters make three bytes, fewer
\* where the group is padded.
DecodeGroup(text) ==
    LET a == IndexOf(Base64Alphabet, CharAt(text, 1)) - 1
        b == IndexOf(Base64Alphabet, CharAt(text, 2)) - 1
        c == IndexOf(Base64Alphabet, CharAt(text, 3)) - 1
        d == IndexOf(Base64Alphabet, CharAt(text, 4)) - 1
        first == a * 4 + b \div 16
        second == (b % 16) * 16 + c \div 4
        third == (c % 4) * 64 + d
    IN  IF CharAt(text, 3) = "=" THEN <<first>>
        ELSE IF CharAt(text, 4) = "=" THEN <<first, second>>
        ELSE <<first, second, third>>

\* Buffer.from(text, "base64")
FromBase64(text) ==
    ConcatBytes([ g \in 1..(Len(text) \div 4) |-> DecodeGroup(SubSeq(text, 4 * g - 3, 4 * g)) ])

\* JSON.stringify of a string: quoted, with quotes and backslashes escaped.
EscapeJson(text) ==
    ConcatText([ i \in 1..Len(text) |->
                   IF CharAt(text, i) \in {"\"", "\\"}
                     THEN "\\" \o CharAt(text, i)
                     ELSE CharAt(text, i) ])

JsonString(text) == "\"" \o EscapeJson(text) \o "\""

\* prompt.toLowerCase()
toLowerCase(text) ==
    ConcatText([ i \in 1..Len(text) |->
                   IF IndexOf(UpperCase, CharAt(text, i)) > 0
                     THEN CharAt(LowerCase, IndexOf(UpperCase, CharAt(text, i)))
                     ELSE CharAt(text, i) ])

\* \w of a regular expression.
IsWordChar(c) ==
    IndexOf(UpperCase, c) > 0 \/ IndexOf(LowerCase, c) > 0 \/ IndexOf(Digits, c) > 0 \/ c = "_"

\* .replace(/[^\w\s]/g, ' ')
ReplacePunctuation(text) ==
    ConcatText([ i \in 1..Len(text) |->
                   IF IsWordChar(CharAt(text, i)) \/ CharAt(text, i) = " "
                     THEN CharAt(text, i)
                     ELSE " " ])

\* .split(/\s+/): the pieces between runs of spaces; a text that starts or
\* ends with a space has an empty first or last piece.
RECURSIVE SplitSpaces(_, _)
SplitSpaces(text, word) ==
    IF text = "" THEN <<word>>
    ELSE IF Head(text) = " "
      THEN IF Len(text) > 1 /\ CharAt(text, 2) = " "
             THEN SplitSpaces(Tail(text), word)
             ELSE <<word>> \o SplitSpaces(Tail(text), "")
    ELSE SplitSpaces(Tail(text), word \o Head(text))

\* const stopWords = [...]
stopWords ==
    { "the", "and", "for", "are", "but", "not", "you", "all", "can", "had", "her", "was",
      "one", "our", "out", "day", "get", "has", "him", "his", "how", "man", "new", "now",
      "old", "see", "two", "way", "who", "boy", "did", "its", "let", "put", "say", "she",
      "too", "use" }

\* word.charAt(0).toUpperCase() + word.slice(1)
Capitalize(word) ==
    (IF IndexOf(LowerCase, Head(word)) > 0
       THEN CharAt(UpperCase, IndexOf(LowerCase, Head(word)))
       ELSE Head(word))
      \o Tail(word)

\* keyWords.join(' ')
RECURSIVE JoinWords(_)
JoinWords(words) ==
    IF words = <<>> THEN ""
    ELSE IF Len(words) = 1 THEN words[1]
    ELSE words[1] \o " " \o JoinWords(Tail(words))

\* meaningfulWords: the words of the prompt longer than two characters that
\* are not stop words.
meaningfulWords(prompt) ==
    SelectSeq(SplitSpaces(ReplacePunctuation(toLowerCase(prompt)), ""),
              LAMBDA word : Len(word) > 2 /\ word \notin stopWords)

\* generateNFTName(prompt)
generateNFTName(prompt) ==
    LET words == meaningfulWords(prompt)
        keyWords == [ i \in 1..(IF Len(words) < 3 THEN Len(words) ELSE 3) |->
                        Capitalize(words[i]) ]
    IN  IF Len(keyWords) = 0 THEN "AI Generated Masterpiece"
        ELSE "AI Generated " \o JoinWords(keyWords)

\* The description template of the metadata.
Description(prompt) ==
    "Created by AI from the prompt: \"" \o prompt
      \o "\". This unique digital artwork was generated using artificial intelligence and represents a one-of-a-kind piece in the AI art collection."

\* The attributes member of the serialised metadata.
AttributesJson(prompt) ==
    "[{\"trait_type\":\"Category\",\"value\":\"AI Generated\"},"
      \o "{\"trait_type\":\"Creation Method\",\"value\":\"Artificial Intelligence\"},"
      \o "{\"trait_type\":\"Prompt Length\",\"value\":" \o JsonString(ToString(Len(prompt))) \o "}]"

\* JSON.stringify(metadata) in either build: the scaffold's metadata is {},
\* the complete one has name, image, description and attributes.
MetadataJson(b, nft) ==
    IF b = "scaffold" THEN "{}"
    ELSE "{\"name\":" \o JsonString(generateNFTName(nft.prompt))
           \o ",\"image\":" \o JsonString(nft.image)
           \o ",\"description\":" \o JsonString(Description(nft.prompt))
           \o ",\"attributes\":" \o AttributesJson(nft.prompt) \o "}"

DataUriPrefix == "data:application/json;base64,"

\* generateMetadata(nft)
generateMetadata(b, nft) ==
    DataUriPrefix \o ToBase64(BufferFrom(MetadataJson(b, nft)))

\* How many backslashes stand right before place p.
BackslashRun(text, p) ==
    LET k == CHOOSE q \in 0..(p - 1) :
               /\ q = 0 \/ CharAt(text, q) # "\\"
               /\ \A r \in (q + 1)..(p - 1) : CharAt(text, r) = "\\"
    IN  p - 1 - k

\* The quotes of a JSON text that open or close a string.
StringQuotes(text) ==
    { p \in 1..Len(text) : CharAt(text, p) = "\"" /\ BackslashRun(text, p) % 2 = 0 }

\* The text a JSON string stands for, from the place after its opening
\* quote to the place before its closing one: a backslash that starts an
\* escape is dropped.
Unescape(text, from, to) ==
    ConcatText([ i \in 1..(to - from + 1) |->
                   IF /\ CharAt(text, from + i - 1) = "\\"
                      /\ BackslashRun(text, from + i - 1) % 2 = 0
                     THEN ""
                     ELSE CharAt(text, from + i - 1) ])

\* JSON.parse of the text of an object, as JSON.stringify writes it: the
\* members of the object, a string member with the text it stands for and
\* any other member with its JSON text.  A text that is not an object has
\* no members.
ParseJsonObject(text) ==
    LET n == Len(text)
        quotes == StringQuotes(text)
        InString(p) == Cardinality({ q \in quotes : q < p }) % 2 = 1
        Structural(p, chars) == CharAt(text, p) \in chars /\ ~InString(p)
        opens == { p \in 1..n : Structural(p, {"{", "["}) }
        closes == { p \in 1..n : Structural(p, {"}", "]"}) }
        Depth(p) == Cardinality({ q \in opens : q < p }) - Cardinality({ q \in closes : q < p })
        separators == { p \in 1..n : Structural(p, {","}) /\ Depth(p) = 1 } \cup {1, n}
        colons == { p \in 1..n : Structural(p, {":"}) /\ Depth(p) = 1 }
        End(from) == CHOOSE p \in separators : p > from /\ \A q \in separators : q > from => p <= q
        Colon(from) == CHOOSE p \in colons : p > from /\ \A q \in colons : q > from => p <= q
        Value(from, to) ==
            IF CharAt(text, from) = "\"" THEN Unescape(text, from + 1, to - 1)
            ELSE SubSeq(text, from, to)
    IN  IF n < 2 \/ CharAt(text, 1) # "{" \/ CharAt(text, n) # "}" THEN {}
        ELSE { [ key |-> Unescape(text, from + 2, Colon(from) - 2),
                 value |-> Value(Colon(from) + 1, End(from) - 1) ] :
                 from \in { p \in separators \ {n} : \E c \in colons : p < c /\ c < End(p) } }

HasMember(members, key) == \E member \in members : member.key = key

Member(members, key) == (CHOOSE member \in members : member.key = key).value

\* text.includes(part)
Includes(text, part) ==
    \E i \in 1..(Len(text) - Len(part) + 1) : SubSeq(text, i, i + Len(part) - 1) = part

\* The descriptors handed to generateMetadata: mintNFT is called on
\* descriptors that have an image, a prompt and a wallet.
MetaPrompts ==
    { "cat", "a red bicycle", "The old man and the sea!", "say \"hi\"", "Moon-walking robot dog on Mars",
      "C:\\temp in neon", "xy" }

MetaImages ==
    { "https://img/1.png", "https://img/2.png?x=1&y=2", "https://cdn.example/a+b.jpg",
      "ipfs://Qm123", "data:image/png;base64,AAAA" }

MetaNFTs ==
    { [ image |-> image, prompt |-> prompt, wallet |-> AddrLower ] :
        image \in MetaImages, prompt \in MetaPrompts }

NoNFT == [ image |-> "", prompt |-> "", wallet |-> "" ]

MetaInit ==
    /\ metaBuild \in Builds
    /\ metaNFT \in MetaNFTs
    /\ metaPc = "called"
    /\ tokenURI = ""

\* generateMetadata is not running.
MetaIdle ==
    /\ metaBuild = "complete"
    /\ metaNFT = NoNFT
    /\ metaPc = "idle"
    /\ tokenURI = ""

\* const metadata = generateMetadata(nft)
GenerateMetadata ==
    /\ metaPc = "called"
    /\ tokenURI' = generateMetadata(metaBuild, metaNFT)
    /\ metaPc' = "done"
    /\ UNCHANGED <<metaBuild, metaNFT>>

\* The text the metadata URI holds after its prefix, decoded.
DecodedMetadata == 
    ParseJsonObject(BufferToString(FromBase64(
        SubSeq(tokenURI, Len(DataUriPrefix) + 1, Len(tokenURI)))))

\* C24: the metadata URI starts with data:application/json;base64, and what
\* follows decodes to a JSON object that has name, image and description,
\* with image the descriptor's image, a description that holds the prompt
\* and the name generateNFTName makes of the prompt.
C24_MetadataRoundTrip ==
    metaPc = "done" =>
      /\ SubSeq(tokenURI, 1, Len(DataUriPrefix)) = DataUriPrefix
      /\ \A key \in {"name", "image", "description"} : HasMember(DecodedMetadata, key)
      /\ Member(DecodedMetadata, "image") = metaNFT.image
      /\ Member(DecodedMetadata, "name") = generateNFTName(metaNFT.prompt)
      /\ Includes(Member(DecodedMetadata, "description"), metaNFT.prompt)

(***************************************************************************)
(* The /chat route: the body is validated, handleGernarateImageCheck asks  *)
(* the classifier and, on a decision to generate, runs generateImage with  *)
(* the poller above; then the route takes the image branch, the wallet     *)
(* branch or the plain completion and answers.  routeTrace lists the calls *)
(* the request has made, in order.                                         *)
(***************************************************************************)

\* req.body.messages: missing, a string, an object that is no array, or an
\* array of messages.
MessagesField(type, items) == [ type |-> type, items |-> items ]

\* A message without content.
NoContentMessage == [ role |-> "user", content |-> Undefined ]

\* The arrays of messages a request may carry: empty, a request to draw, an
\* address, an address in the history only, a valid address before and
\* after one of bad checksum, and a latest message without content.
RouteConversations ==
    { <<>>,
      <<UserMessage(<<Draw>>)>>,
      <<UserMessage(<<AddrChecksum>>)>>,
      <<UserMessage(<<AddrLower>>), UserMessage(<<Draw>>)>>,
      <<UserMessage(<<AddrLower, AddrBadChecksum>>)>>,
      <<UserMessage(<<AddrBadChecksum, AddrLower>>)>>,
      <<UserMessage(<<Draw>>), NoContentMessage>> }

\* req.body.nft: absent, or a descriptor with or without wallet and hash.
RouteNFTs ==
    { AbsentNFT,
      [ image |-> "https://img/0.png", prompt |-> "blue car", wallet |-> Undefined,
        hash |-> Undefined ],
      [ image |-> "https://img/0.png", prompt |-> "blue car", wallet |-> AddrChecksum,
        hash |-> "0xh1" ] }

RouteBodies ==
    { [ messages |-> MessagesField("array", items), nft |-> nft ] :
        items \in RouteConversations, nft \in RouteNFTs }
    \cup
    { [ messages |-> MessagesField(type, <<>>), nft |-> AbsentNFT ] :
        type \in {"undefined", "string", "object"} }

\* !body.messages || !Array.isArray(body.messages)
InvalidBody(body) == body.messages.type # "array"

\* What the classifier's LLM call settles with: a rejection, or a response
\* whose output.message is one of these texts.
DecisionOutputs ==
    { <<LBrace, GenTrue, CommaPrompt, RBrace>>,
      <<LBrace, GenTrue, RBrace>>,
      <<LBrace, GenFalse, CommaPrompt, RBrace>>,
      <<NullLit>>,
      <<Draw, PromptCat>>,
      <<Draw>> }

LLMAnswers(texts) == { Thrown(<<"LLM API request failed: 503">>) } \cup { Returned(text) : text \in texts }

\* What the completion's LLM call answers in output.message.
CompletionOutputs == { <<"Here is your image">> }

\* ImageGenerationResult
ImageData(image, prompt) == [ image |-> image, prompt |-> prompt ]

NoImageData == ImageData(Null, Null)

\* if (!parsedResponse) ...; if (parsedResponse.generate && parsedResponse.prompt)
WantsImage(parsed) ==
    parsed.type = "object" /\ parsed.generate = "true" /\ Truthy(parsed.prompt)

\* The catch block of handleGernarateImageCheck under a mutation: the error
\* is thrown on.
ImageCheckRethrows(tryResult) == tryResult

\* handleGernarateImageCheck settles: with what its try block returned, or,
\* when the try block threw, with { image: null, prompt: null } after the
\* catch block.
ImageCheckSettles(tryResult) ==
    IF tryResult.kind = "throw" THEN Returned(<<NoImageData>>) ELSE tryResult

\* generateImage rethrows what submission or polling threw.
GenerateImageError(thrown) == Thrown(<<"Failed to generate image: ">> \o thrown.value)

\* filterWalletAddress(body.messages) as the route calls it: reading
\* .content.match of a latest message without content is a TypeError.
WalletOutcome(msgs) ==
    IF Len(msgs) > 0 /\ msgs[Len(msgs)].content = Undefined
      THEN Thrown(<<"Cannot read properties of undefined (reading 'match')">>)
      ELSE Returned(<<filterWalletAddress(msgs)>>)

\* oldNFT under a mutation: the descriptor of the request is dropped.
OldNFTEmpty(body) == [ image |-> "", prompt |-> "", wallet |-> "", hash |-> Undefined ]

\* let oldNFT = body.nft || {image: '', prompt: '', wallet: ''}
OldNFT(body) ==
    IF body.nft = AbsentNFT
      THEN [ image |-> "", prompt |-> "", wallet |-> "", hash |-> Undefined ]
      ELSE body.nft

\* newNFT under a mutation: the wallet of the request is dropped.
NewNFTNoWallet(body, data) == [ image |-> data.image, prompt |-> data.prompt, wallet |-> "" ]

\* newNFT = { image, prompt, wallet: body.nft?.wallet || '' }
NewNFT(body, data) ==
    [ image |-> data.image, prompt |-> data.prompt,
      wallet |-> IF body.nft # AbsentNFT /\ Truthy(body.nft.wallet) THEN body.nft.wallet ELSE "" ]

\* API_RESPONSES.WALLET_UPDATE_SUCCESS(address)
WalletUpdateSuccess(address) ==
    <<"We updated your wallet address to: ", address, ". You can now mint NFTs to this wallet.">>

NoRouteResponse ==
    [ status |-> 0, error |-> Undefined, details |-> <<>>, message |-> <<>>,
      nft |-> AbsentNFT, latestNFT |-> AbsentNFT ]

\* res.status(400).json({ error: 'Invalid request: messages array is required' })
RouteResponse400 ==
    [ status |-> 400, error |-> "Invalid request: messages array is required", details |-> <<>>,
      message |-> <<>>, nft |-> AbsentNFT, latestNFT |-> AbsentNFT ]

\* res.status(500).json({ error: SERVER_ERROR, details: error.message })
RouteResponse500(details) ==
    [ status |-> 500, error |-> "Server error", details |-> details, message |-> <<>>,
      nft |-> AbsentNFT, latestNFT |-> AbsentNFT ]

\* res.json({ success: true, result: { output: { ...completionResult.output,
\* ...(newNFT ? { nft: { image, prompt } } : {}) }, input },
\* latestNFT: newNFT || oldNFT })
RouteResponse200(message, nft, latestNFT) ==
    [ status |-> 200, error |-> Undefined, details |-> <<>>, message |-> message,
      nft |-> nft, latestNFT |-> latestNFT ]

RouteInit ==
    /\ routeBody \in RouteBodies
    /\ imageToken \in BOOLEAN
    /\ routePc = "received"
    /\ routeTrace = <<>>
    /\ decision = JsNull
    /\ imageCheck = NoResult
    /\ routeResponse = NoRouteResponse

\* No /chat request is being handled.
RouteIdle ==
    /\ routeBody = [ messages |-> MessagesField("undefined", <<>>), nft |-> AbsentNFT ]
    /\ imageToken = TRUE
    /\ routePc = "idle"
    /\ routeTrace = <<>>
    /\ decision = JsNull
    /\ imageCheck = NoResult
    /\ routeResponse = NoRouteResponse

\* The route answers.
RouteResponds(response, trace) ==
    /\ routePc' = "responded"
    /\ routeResponse' = response
    /\ routeTrace' = trace

\* The route after await handleGernarateImageCheck(body.messages) has
\* settled, up to its next await or its answer: a rejection goes to the catch
\* block of the route; an image starts handleCompletionWithNFT; otherwise
\* filterWalletAddress runs and either the wallet is acknowledged or
\* handleCompletion starts.
AfterImageCheck(result) ==
    /\ imageCheck' = result
    /\ IF result.kind = "throw"
         THEN RouteResponds(RouteResponse500(result.value), routeTrace)
       ELSE IF result.value[1].image # Null
         THEN /\ routePc' = "awaitCompletion"
              /\ routeTrace' = Append(routeTrace, "handleCompletionWithNFT")
              /\ routeResponse' = routeResponse
       ELSE LET found == WalletOutcome(routeBody.messages.items)
                trace == Append(routeTrace, "filterWalletAddress")
            IN  IF found.kind = "throw"
                  THEN RouteResponds(RouteResponse500(found.value), trace)
                ELSE IF found.value[1] # Null
                  THEN RouteResponds(
                         RouteResponse200(WalletUpdateSuccess(found.value[1]), AbsentNFT,
                                          [ OldNFT(routeBody) EXCEPT !.wallet = found.value[1] ]),
                         trace)
                ELSE /\ routePc' = "awaitCompletion"
                     /\ routeTrace' = Append(trace, "handleCompletion")
                     /\ routeResponse' = routeResponse

\* POST /chat arrives: the body is validated and handleGernarateImageCheck
\* runs up to await handleCompletionCustomPrompt(...).
RouteRequest ==
    /\ routePc = "received"
    /\ IF InvalidBody(routeBody)
         THEN RouteResponds(RouteResponse400, routeTrace)
         ELSE /\ routePc' = "awaitDecision"
              /\ routeTrace' = Append(routeTrace, "classifier")
              /\ routeResponse' = routeResponse
    /\ UNCHANGED <<routeBody, imageToken, decision, imageCheck>>

\* The classifier's call settles: the answer is parsed and, on a decision to
\* generate, generateImage runs up to await submitImageGenerationRequest.
RouteDecision(answer) ==
    /\ routePc = "awaitDecision"
    /\ LET parsed == IF answer.kind = "throw" THEN JsNull
                     ELSE tryParseImageGenerationResponse(answer.value).value
       IN  /\ decision' = parsed
           /\ IF answer.kind = "throw"
                THEN AfterImageCheck(ImageCheckSettles(answer))
              ELSE IF ~WantsImage(parsed)
                THEN AfterImageCheck(ImageCheckSettles(Returned(<<NoImageData>>)))
              ELSE IF ~imageToken
                THEN AfterImageCheck(ImageCheckSettles(Thrown(<<"IMAGE_API_TOKEN is not set">>)))
              ELSE /\ routePc' = "awaitSubmit"
                   /\ routeTrace' = Append(routeTrace, "submitImageGenerationRequest")
                   /\ UNCHANGED <<imageCheck, routeResponse>>
    /\ UNCHANGED <<routeBody, imageToken, pollVars>>

\* await submitImageGenerationRequest(prompt) settles: with a request id
\* pollForImageResult is called and runs up to its first delay.
RouteSubmitted(accepted) ==
    /\ routePc = "awaitSubmit"
    /\ IF accepted
         THEN /\ routePc' = "polling"
              /\ LoopTest(attempt)
              /\ UNCHANGED <<attempt, checks, sleeps, pendingSeen, lastAnswer>>
              /\ UNCHANGED <<routeTrace, imageCheck, routeResponse>>
         ELSE /\ AfterImageCheck(ImageCheckSettles(
                    GenerateImageError(Thrown(<<"Image generation request failed: 500">>))))
              /\ UNCHANGED pollVars
    /\ UNCHANGED <<routeBody, imageToken, decision>>

\* The delay of the poll loop elapses inside the request.
RoutePollSleepDone ==
    /\ routePc = "polling"
    /\ PollSleepDone
    /\ UNCHANGED <<routeBody, imageToken, routePc, routeTrace, decision, imageCheck, routeResponse>>

\* A status check settles inside the request: the loop goes on, or the
\* poller returns the URL or throws, generateImage and
\* handleGernarateImageCheck settle, and the route goes on.
RoutePollStatus(answer) ==
    /\ routePc = "polling"
    /\ PollStatus(answer)
    /\ IF pollPc' = "returned"
         THEN AfterImageCheck(ImageCheckSettles(
                Returned(<<ImageData(pollResult'.value[1], decision.prompt)>>)))
       ELSE IF pollPc' = "thrown"
         THEN AfterImageCheck(ImageCheckSettles(GenerateImageError(pollResult')))
       ELSE UNCHANGED <<routePc, routeTrace, imageCheck, routeResponse>>
    /\ UNCHANGED <<routeBody, imageToken, decision>>

\* await handleCompletionWithNFT(...) or await handleCompletion(...)
\* settles and the route answers.
RouteCompletion(answer) ==
    /\ routePc = "awaitCompletion"
    /\ LET data == imageCheck.value[1]
           generated == data.image # Null
       IN  IF answer.kind = "throw"
             THEN RouteResponds(RouteResponse500(answer.value), routeTrace)
             ELSE RouteResponds(
                    RouteResponse200(answer.value,
                                     IF generated
                                       THEN [ image |-> data.image, prompt |-> data.prompt ]
                                       ELSE AbsentNFT,
                                     IF generated THEN NewNFT(routeBody, data)
                                     ELSE OldNFT(routeBody)),
                    routeTrace)
    /\ UNCHANGED <<routeBody, imageToken, decision, imageCheck, pollVars>>

\* The calls of routeTrace, as a set.
Called == { routeTrace[i] : i \in DOMAIN routeTrace }

\* The latest message of an array has no text content.
LacksContent(body) ==
    /\ ~InvalidBody(body)
    /\ Len(body.messages.items) > 0
    /\ body.messages.items[Len(body.messages.items)].content = Undefined

\* C21: a body whose messages field is missing or is not an array is
\* answered 400 and no outbound call is made; a body whose latest message
\* has no text content is answered with a 4xx status as well, not a 5xx.
C21_InvalidBodyIs4xx ==
    routePc = "responded" =>
      /\ InvalidBody(routeBody) => routeResponse.status = 400 /\ routeTrace = <<>>
      /\ LacksContent(routeBody) => routeResponse.status \in 400..499

\* The request generated an image: the classifier decided to generate and
\* the poller returned a URL.
ImageGenerated == WantsImage(decision) /\ pollPc = "returned"

\* body.nft?.wallet || ''
RequestWallet ==
    IF routeBody.nft # AbsentNFT /\ Truthy(routeBody.nft.wallet) THEN routeBody.nft.wallet ELSE ""

\* The response carries the generated image: result.output.nft and latestNFT
\* have the URL the poller returned and the prompt of the decision, and
\* latestNFT has the wallet of the request.
CarriesGeneratedNFT ==
    /\ routeResponse.nft = [ image |-> pollResult.value[1], prompt |-> decision.prompt ]
    /\ routeResponse.latestNFT =
         [ image |-> pollResult.value[1], prompt |-> decision.prompt, wallet |-> RequestWallet ]

\* C22 as stated: whenever the classifier decides to generate with prompt p
\* and polling ends in success with URL u, after any number of pending
\* answers, the response carries the descriptor image = u, prompt = p in
\* result.output.nft and in latestNFT, with the wallet of the request.
C22_ImageAlwaysInResponse ==
    routePc = "responded" /\ ImageGenerated => CarriesGeneratedNFT

\* C22, amended: under the same conditions the response carries that
\* descriptor when handleCompletionWithNFT succeeds; when that call fails
\* the route answers 500 and the response carries no descriptor.
C22_ImageInSuccessResponse ==
    routePc = "responded" /\ ImageGenerated =>
      \/ routeResponse.status = 200 /\ CarriesGeneratedNFT
      \/ /\ routeResponse = RouteResponse500(<<"LLM API request failed: 503">>)
         /\ routeTrace[Len(routeTrace)] = "handleCompletionWithNFT"

\* C22 witness: two pending answers, then success; the request carried a
\* descriptor with a wallet.
C22_Witness ==
    /\ routePc = "responded"
    /\ routeResponse.status = 200
    /\ decision.prompt = "cat"
    /\ pendingSeen = 2
    /\ checks = 3
    /\ pollResult = Returned(<<"https://img/1.png">>)
    /\ routeBody.nft # AbsentNFT
    /\ routeResponse.nft = [ image |-> "https://img/1.png", prompt |-> "cat" ]
    /\ routeResponse.latestNFT.wallet = AddrChecksum

HoldsValidAddress(body) ==
    /\ ~InvalidBody(body)
    /\ ~LacksContent(body)
    /\ Len(body.messages.items) > 0
    /\ LET content == body.messages.items[Len(body.messages.items)].content
       IN  \E i \in 1..Len(content) :
             Shape(content[i]).prefix /\ Shape(content[i]).hex = HEX_LEN /\ isAddress(content[i])

\* The branches the request has taken.
BranchesTaken ==
    { branch \in {"handleCompletionWithNFT", "handleCompletion"} : branch \in Called }
    \cup
    (IF routeResponse.status = 200 /\ routeResponse.message[1] = WalletUpdateSuccess("")[1]
       THEN {"wallet"} ELSE {})

\* A request takes at most one branch, exactly one when it is answered with
\* success, and the image branch goes before the wallet branch: with an
\* image the wallet extractor is not consulted and the wallet of the request
\* is kept.
OneBranchImageFirst ==
    /\ Cardinality(BranchesTaken) <= 1
    /\ routePc = "responded" /\ routeResponse.status = 200 => Cardinality(BranchesTaken) = 1
    /\ "handleCompletion" \in Called => "filterWalletAddress" \in Called
    /\ "handleCompletionWithNFT" \in Called <=>
         imageCheck.kind = "return" /\ imageCheck.value[1].image # Null
    /\ "handleCompletionWithNFT" \in Called =>
         /\ "filterWalletAddress" \notin Called
         /\ routeResponse.status = 200 => routeResponse.latestNFT.wallet = RequestWallet

\* The descriptor of the request, the empty one when it carries none.
RequestNFT ==
    IF routeBody.nft = AbsentNFT
      THEN [ image |-> "", prompt |-> "", wallet |-> "", hash |-> Undefined ]
      ELSE routeBody.nft

\* The wallet branch answered: latestNFT is the descriptor of the request
\* with the wallet replaced by the address the extractor returns, and no
\* completion call was made.
WalletBranchAnswered ==
    /\ routeResponse.status = 200
    /\ routeResponse.latestNFT =
         [ RequestNFT EXCEPT !.wallet = filterWalletAddress(routeBody.messages.items) ]
    /\ routeResponse.latestNFT.wallet # Null
    /\ \A field \in {"image", "prompt", "hash"} :
         routeResponse.latestNFT[field] = RequestNFT[field]
    /\ routeResponse.nft = AbsentNFT
    /\ "handleCompletion" \notin Called

PollIdle ==
    /\ pollPc = "idle"
    /\ attempt = 0
    /\ checks = 0
    /\ sleeps = 0
    /\ pendingSeen = 0
    /\ lastAnswer = NoAnswer
    /\ pollResult = NoResult

InitPoll == PollInit /\ ParseIdle /\ WalletIdle /\ MintableIdle /\ MintIdle /\ ChatIdle /\ CleanIdle /\ GenIdle /\ LLMIdle /\ MetaIdle /\ RouteIdle

NextPoll ==
    \/ PollStart /\ UNCHANGED <<parseVars, walletVars, mintableVars, mintVars, chatVars, cleanVars, genVars, llmVars, metaVars, routeVars>>
    \/ PollSleepDone /\ UNCHANGED <<parseVars, walletVars, mintableVars, mintVars, chatVars, cleanVars, genVars, llmVars, metaVars, routeVars>>
    \/ \E answer \in StatusAnswers :
         PollStatus(answer) /\ UNCHANGED <<parseVars, walletVars, mintableVars, mintVars, chatVars, cleanVars, genVars, llmVars, metaVars, routeVars>>

\* One call of pollForImageResult against every sequence of status answers.
SpecPoll == InitPoll /\ [][NextPoll]_vars

\* The same call when every delay elapses and every status check settles.
FairSpecPoll == SpecPoll /\ WF_vars(NextPoll)

InitParse == ParseInit /\ PollIdle /\ WalletIdle /\ MintableIdle /\ MintIdle /\ ChatIdle /\ CleanIdle /\ GenIdle /\ LLMIdle /\ MetaIdle /\ RouteIdle

NextParse == TryParse /\ UNCHANGED <<pollVars, walletVars, mintableVars, mintVars, chatVars, cleanVars, genVars, llmVars, metaVars, routeVars>>

\* One call of tryParseImageGenerationResponse on every bounded LLM output.
SpecParse == InitParse /\ [][NextParse]_vars

InitWallet == WalletInit /\ PollIdle /\ ParseIdle /\ MintableIdle /\ MintIdle /\ ChatIdle /\ CleanIdle /\ GenIdle /\ LLMIdle /\ MetaIdle /\ RouteIdle

NextWallet == FilterWallet /\ UNCHANGED <<pollVars, parseVars, mintableVars, mintVars, chatVars, cleanVars, genVars, llmVars, metaVars, routeVars>>

\* One call of filterWalletAddress on every bounded conversation.
SpecWallet == InitWallet /\ [][NextWallet]_vars

InitMintable == MintableInit /\ PollIdle /\ ParseIdle /\ WalletIdle /\ MintIdle /\ ChatIdle /\ CleanIdle /\ GenIdle /\ LLMIdle /\ MetaIdle /\ RouteIdle

NextMintable == IsMintableCall /\ UNCHANGED <<pollVars, parseVars, walletVars, mintVars, chatVars, cleanVars, genVars, llmVars, metaVars, routeVars>>

\* One call of isMintable on every descriptor.
SpecMintable == InitMintable /\ [][NextMintable]_vars

InitMint == MintInit /\ PollIdle /\ ParseIdle /\ WalletIdle /\ MintableIdle /\ ChatIdle /\ CleanIdle /\ GenIdle /\ LLMIdle /\ MetaIdle /\ RouteIdle

NextMint ==
    \/ MintRequest /\ UNCHANGED <<pollVars, parseVars, walletVars, mintableVars, chatVars, cleanVars, genVars, llmVars, metaVars, routeVars>>
    \/ \E readable, decrypts \in BOOLEAN :
         MintWalletLoaded(readable, decrypts)
           /\ UNCHANGED <<pollVars, parseVars, walletVars, mintableVars, chatVars, cleanVars, genVars, llmVars, metaVars, routeVars>>
    \/ \E balance \in {-1, 0, 1} :
         MintBalance(balance) /\ UNCHANGED <<pollVars, parseVars, walletVars, mintableVars, chatVars, cleanVars, genVars, llmVars, metaVars, routeVars>>
    \/ \E accepted \in BOOLEAN :
         MintSubmitted(accepted) /\ UNCHANGED <<pollVars, parseVars, walletVars, mintableVars, chatVars, cleanVars, genVars, llmVars, metaVars, routeVars>>
    \/ \E confirmed \in BOOLEAN :
         MintConfirmed(confirmed) /\ UNCHANGED <<pollVars, parseVars, walletVars, mintableVars, chatVars, cleanVars, genVars, llmVars, metaVars, routeVars>>

\* One POST /mint request, for every body and every environment.
SpecMint == InitMint /\ [][NextMint]_vars

InitChat == ChatInit /\ PollIdle /\ ParseIdle /\ WalletIdle /\ MintableIdle /\ MintIdle /\ CleanIdle /\ GenIdle /\ LLMIdle /\ MetaIdle /\ RouteIdle

NextChat ==
    \/ \E text \in InputTexts :
         TypeInput(text)
           /\ UNCHANGED <<pollVars, parseVars, walletVars, mintableVars, mintVars, cleanVars, genVars, llmVars, metaVars, routeVars>>
    \/ SendMessage /\ UNCHANGED <<pollVars, parseVars, walletVars, mintableVars, mintVars, cleanVars, genVars, llmVars, metaVars, routeVars>>
    \/ \E response \in ChatResponses :
         ChatResponse(response)
           /\ UNCHANGED <<pollVars, parseVars, walletVars, mintableVars, mintVars, cleanVars, genVars, llmVars, metaVars, routeVars>>
    \/ \E i \in 1..Len(chatMessages), typed \in MintFormTexts :
         HandleMint(i, typed)
           /\ UNCHANGED <<pollVars, parseVars, walletVars, mintableVars, mintVars, cleanVars, genVars, llmVars, metaVars, routeVars>>
    \/ \E r \in mintRequests, confirmed \in BOOLEAN :
         MintSettled(r, confirmed)
           /\ UNCHANGED <<pollVars, parseVars, walletVars, mintableVars, mintVars, cleanVars, genVars, llmVars, metaVars, routeVars>>

\* The chat widget under every interleaving of typing, sends, chat responses,
\* mint clicks and mint responses.
SpecChat == InitChat /\ [][NextChat]_vars

\* The same widget when every POST /chat settles.
FairSpecChat ==
    SpecChat /\ WF_vars(\E response \in ChatResponses :
                          ChatResponse(response)
                            /\ UNCHANGED <<pollVars, parseVars, walletVars, mintableVars, mintVars, cleanVars, genVars, llmVars, metaVars, routeVars>>)

InitClean ==
    CleanInit /\ PollIdle /\ ParseIdle /\ WalletIdle /\ MintableIdle /\ MintIdle /\ ChatIdle /\ GenIdle /\ LLMIdle /\ MetaIdle /\ RouteIdle

NextClean ==
    CleanMessages
      /\ UNCHANGED <<pollVars, parseVars, walletVars, mintableVars, mintVars, chatVars, genVars, llmVars, metaVars, routeVars>>

\* One call of cleanMessagesForLLM on every bounded conversation.
SpecClean == InitClean /\ [][NextClean]_vars

InitGen ==
    GenInit /\ PollIdle /\ ParseIdle /\ WalletIdle /\ MintableIdle /\ MintIdle /\ ChatIdle
      /\ CleanIdle /\ LLMIdle /\ MetaIdle /\ RouteIdle

NextGen ==
    \/ \E c \in Calls : GenStart(c) /\ 
           UNCHANGED <<pollVars, parseVars, walletVars, mintableVars, mintVars, chatVars, cleanVars, llmVars, metaVars, routeVars>>
    \/ \E c \in Calls : GenSubmitted(c) /\ 
           UNCHANGED <<pollVars, parseVars, walletVars, mintableVars, mintVars, chatVars, cleanVars, llmVars, metaVars, routeVars>>
    \/ \E c \in Calls : GenSleepDone(c) /\ 
           UNCHANGED <<pollVars, parseVars, walletVars, mintableVars, mintVars, chatVars, cleanVars, llmVars, metaVars, routeVars>>
    \/ \E c \in Calls, answer \in StatusAnswers : GenStatus(c, answer) /\ 
           UNCHANGED <<pollVars, parseVars, walletVars, mintableVars, mintVars, chatVars, cleanVars, llmVars, metaVars, routeVars>>

\* Several generateImage calls running side by side.
SpecGen == InitGen /\ [][NextGen]_vars

InitLLM ==
    LLMInit /\ PollIdle /\ ParseIdle /\ WalletIdle /\ MintableIdle /\ MintIdle /\ ChatIdle
      /\ CleanIdle /\ GenIdle /\ MetaIdle /\ RouteIdle

NextLLM ==
    \/ LLMCall /\ UNCHANGED <<pollVars, parseVars, walletVars, mintableVars, mintVars, chatVars, cleanVars,
                      genVars, metaVars, routeVars>>
    \/ \E response \in UpstreamResponses \cup {FetchRejected} :
         LLMFetched(response)
           /\ UNCHANGED <<pollVars, parseVars, walletVars, mintableVars, mintVars, chatVars, cleanVars,
                      genVars, metaVars, routeVars>>
    \/ LLMJson /\ UNCHANGED <<pollVars, parseVars, walletVars, mintableVars, mintVars, chatVars, cleanVars,
                      genVars, metaVars, routeVars>>

\* One call of makeLLMRequest against every upstream answer.
SpecLLM == InitLLM /\ [][NextLLM]_vars

InitMeta ==
    MetaInit /\ PollIdle /\ ParseIdle /\ WalletIdle /\ MintableIdle /\ MintIdle /\ ChatIdle
      /\ CleanIdle /\ GenIdle /\ LLMIdle /\ RouteIdle

NextMeta ==
    GenerateMetadata
      /\ UNCHANGED <<pollVars, parseVars, walletVars, mintableVars, mintVars, chatVars, cleanVars,
                      genVars, llmVars, routeVars>>

\* One call of generateMetadata on every descriptor, in either build.
SpecMeta == InitMeta /\ [][NextMeta]_vars

InitRoute ==
    RouteInit /\ PollIdle /\ ParseIdle /\ WalletIdle /\ MintableIdle /\ MintIdle /\ ChatIdle
      /\ CleanIdle /\ GenIdle /\ LLMIdle /\ MetaIdle

NextRoute ==
    \/ RouteRequest /\ UNCHANGED pollVars /\ UNCHANGED <<parseVars, walletVars, mintableVars, mintVars, chatVars, cleanVars, genVars,
                      llmVars, metaVars>>
    \/ \E answer \in LLMAnswers(DecisionOutputs) :
         RouteDecision(answer) /\ UNCHANGED <<parseVars, walletVars, mintableVars, mintVars, chatVars, cleanVars, genVars,
                      llmVars, metaVars>>
    \/ \E accepted \in BOOLEAN :
         RouteSubmitted(accepted) /\ UNCHANGED <<parseVars, walletVars, mintableVars, mintVars, chatVars, cleanVars, genVars,
                      llmVars, metaVars>>
    \/ RoutePollSleepDone /\ UNCHANGED <<parseVars, walletVars, mintableVars, mintVars, chatVars, cleanVars, genVars,
                      llmVars, metaVars>>
    \/ \E answer \in StatusAnswers :
         RoutePollStatus(answer) /\ UNCHANGED <<parseVars, walletVars, mintableVars, mintVars, chatVars, cleanVars, genVars,
                      llmVars, metaVars>>
    \/ \E answer \in LLMAnswers(CompletionOutputs) :
         RouteCompletion(answer) /\ UNCHANGED <<parseVars, walletVars, mintableVars, mintVars, chatVars, cleanVars, genVars,
                      llmVars, metaVars>>

\* One POST /chat from its arrival to its answer, against every answer of
\* the classifier, the image service and the completion.
SpecRoute == InitRoute /\ [][NextRoute]_vars

====
